---- MODULE Spec2Model ----
(***************************************************************************)
(* A model of the allaboutdocuments pipeline: the conversational RAG       *)
(* session store, the upload handlers and the retention cleanup, the       *)
(* model loader, the two structured-output chains and the FAISS ingestor.  *)
(* Each subsystem has its own specification over the shared variables; the *)
(* variables a specification does not use stay at their initial value.     *)
(***************************************************************************)
EXTENDS Integers, Sequences, FiniteSets, TLC

VARIABLES
    \* ---- chat_with_a_document/data_retrieval.py
    storeExists,    \* "store" in st.session_state
    store,          \* st.session_state.store: session id -> list of messages
    rag,            \* ConversationalRAG instances: instance -> self.session_id
    ragCall,        \* the invoke call in flight (single-threaded handler)
    ragLast,        \* how the last ConversationalRAG operation ended
    okLog,          \* history variable: the successful invokes per session, in call order
    \* ---- document_analyzer/data_ingestion.py
    docBase,        \* file_location: session id -> the session directory and its files
    handler,        \* DocumentHandler.session_id ("none" before construction)
    \* ---- document_comparator/data_ingestion.py
    baseDir,        \* base_dir: entry name -> absent, a file, or a session directory
    ingestion,      \* DocumentIngestion.session_id ("none" before construction)
    clock,          \* the file system's time, for st_mtime
    upLast,         \* how the last upload or retention operation ended
    readLast,       \* how the last read_pdf or read_document call ended
    elsewhere,      \* the paths outside every session directory that were written
    \* ---- utils/model_loader.py
    environ,        \* os.environ: variable -> its value, or unset
    dotenvFile,     \* the .env file load_dotenv reads
    configYaml,     \* what load_config_yaml finds on disk
    loader,         \* the ModelLoader instance, once constructed
    clients,        \* the LLM and embedding clients constructed so far, in order
    mlLast,         \* how the last ModelLoader operation ended
    \* ---- document_metadata_analysis.py and document_comparison.py
    chain,          \* the structured-output chain call in flight or just ended
    \* ---- chat_with_a_document/data_ingestion.py
    dataDir,        \* data_dir: the uploaded files written so far, in order
    faissIndex,     \* faiss_dir: the two files save_local writes
    ingLast,        \* how the last ingest_files call ended
    \* ---- the same code under concurrent callers
    sessionStoreMade,   \* "store" in st.session_state
    sessionStore,       \* st.session_state.store: session id -> history object
    historyObjects,     \* the ChatMessageHistory objects created: object -> messages
    callers,            \* the invoke call of each caller: where it is, what it holds
    ingCalls,           \* the ingest_files call of each caller
    \* ---- the text splitter of _create_retriever
    splitLast           \* the last text split: its pieces and the chunks made

ragVars == <<storeExists, store, rag, ragCall, ragLast, okLog>>

docVars == <<docBase, handler>>
cmpVars == <<baseDir, ingestion, clock>>

upVars  == <<docVars, cmpVars, upLast, readLast, elsewhere>>

mlVars  == <<environ, dotenvFile, configYaml, loader, clients, mlLast>>
chVars  == <<chain>>
ingVars == <<dataDir, faissIndex, ingLast>>

sesVars == <<sessionStoreMade, sessionStore, historyObjects, callers>>
splVars == <<splitLast>>
conVars == <<sesVars, ingCalls, splVars>>

nonRagVars == <<upVars, mlVars, chVars, ingVars, conVars>>
nonUpVars  == <<ragVars, mlVars, chVars, ingVars, conVars>>
nonMlVars  == <<ragVars, upVars, chVars, ingVars, conVars>>
nonChVars  == <<ragVars, upVars, mlVars, ingVars, conVars>>
nonIngVars == <<ragVars, upVars, mlVars, chVars, conVars>>
nonSesVars == <<ragVars, upVars, mlVars, chVars, ingVars, ingCalls, splVars>>
nonSplVars == <<ragVars, upVars, mlVars, chVars, ingVars, sesVars, ingCalls>>

vars == <<ragVars, upVars, mlVars, chVars, ingVars, conVars>>

--------------------------------------------------------------------------
(* Bounds                                                                  *)

MaxTurns == 2       \* turns recorded per session before the model stops invoking
MaxInitTime == 2    \* st_mtime values of the directories found at the start: 1..MaxInitTime
MaxOps == 3         \* upload and cleanup operations in one run
MaxClients == 2     \* clients constructed from one environment
MaxFiles == 2       \* files in one ingest_files call
MaxDataFiles == 3   \* files written to data_dir in one run
MaxPages == 3       \* pages of a PDF
MaxPieces == 3      \* pieces a text falls into at its separators

\* OutputFixingParser.from_llm is called without max_retries: its default.
MaxRetries == 1

--------------------------------------------------------------------------
(* exception/custom_exception.py                                           *)

\* What `original_exception.__traceback__` evaluates to, by the kind of object
\* the call site passes as original_exception: the caught exception `e`
\* (a traceback object), the module `sys` (no such attribute), or nothing.
TracebackAttr(orig) ==
    CASE orig = "sys"     -> [has |-> FALSE, iterable |-> FALSE, len |-> 0]
      [] orig = "missing" -> [has |-> FALSE, iterable |-> FALSE, len |-> 0]
      [] OTHER            -> [has |-> TRUE,  iterable |-> FALSE, len |-> 0]

\* The exception that leaves `raise AllAboutDocumentsException(msg, orig)`:
\* __init__ runs `_, _, exception_traceback = original_exception.__traceback__`
\* first, so the instance exists only when that unpacking succeeds.
AllAboutDocumentsException(orig) ==
    LET tb == TracebackAttr(orig) IN
    IF orig = "missing" THEN "TypeError"              \* required argument not given
    ELSE IF ~tb.has THEN "AttributeError"             \* sys.__traceback__
    ELSE IF ~tb.iterable \/ tb.len # 3 THEN "TypeError"  \* cannot unpack a traceback
    ELSE "AllAboutDocumentsException"

--------------------------------------------------------------------------
(* chat_with_a_document/data_retrieval.py: ConversationalRAG               *)

SessionIds == {"s1", "s2"}
Instances  == {"r1", "r2"}
Inputs     == {"q1", "q2"}
Answers    == {"a1", ""}
NoSession  == "none"

Human(u) == [type |-> "human", content |-> u]
AI(a)    == [type |-> "ai", content |-> a]

\* The messages recorded for a session (none while the session is not in the store).
Messages(s) == IF s \in DOMAIN store THEN store[s] ELSE <<>>

IsPrefix(p, q) == Len(p) <= Len(q) /\ SubSeq(q, 1, Len(p)) = p

\* The messages N logged turns amount to: Human(input), AI(answer) per turn.
RECURSIVE TurnMessages(_)
TurnMessages(log) ==
    IF log = <<>> THEN <<>>
    ELSE <<Human(log[1].input), AI(log[1].answer)>> \o TurnMessages(Tail(log))

\* _get_session_history, lines 127-128: a ChatMessageHistory() is stored only
\* when the id is not yet a key of the store.
GetSessionHistoryReset(st, s) == [x \in DOMAIN st \cup {s} |-> IF x = s THEN <<>> ELSE st[x]]

\* A lookup that starts a new store for an absent id.
GetSessionHistoryFreshStore(st, s) ==
    IF s \in DOMAIN st THEN st ELSE [x \in {s} |-> <<>>]

GetSessionHistory(st, s) ==
    IF s \in DOMAIN st THEN st
    ELSE [x \in DOMAIN st \cup {s} |-> IF x = s THEN <<>> ELSE st[x]]

\* RunnableWithMessageHistory on the end of a successful run: the input message
\* and the output message are added to the end of the history.
AddMessagesFront(h, u, a) == <<Human(u), AI(a)>> \o h

AddMessages(h, u, a) == h \o <<Human(u), AI(a)>>

\* The history after the chain ended: only a run that did not raise adds to it.
HistoryAfterPartial(h, u, a, failAt) ==
    IF failAt = "none" THEN AddMessages(h, u, a) ELSE h \o <<Human(u)>>

HistoryAfter(h, u, a, failAt) ==
    IF failAt = "none" THEN AddMessages(h, u, a) ELSE h

\* A chain that asks the LLM for a standalone question on every turn.
ChainStepsAlwaysRewrite(h) == <<"rewrite", "retrieve", "synthesize">>

\* The steps the chain runs: create_history_aware_retriever sends the input
\* straight to the retriever when chat_history is empty and asks the LLM for a
\* standalone question otherwise; then the QA chain synthesises the answer.
ChainSteps(h) ==
    (IF h = <<>> THEN <<>> ELSE <<"rewrite">>) \o <<"retrieve", "synthesize">>

\* What the retriever is asked, once the chain gets that far: the user input
\* as it is, or the standalone question the LLM made of it and the history.
NoQuery == [asked |-> FALSE, rewritten |-> FALSE, input |-> "none"]
RetrieverQuery(steps, failAt, u) ==
    IF failAt = "rewrite" THEN NoQuery
    ELSE [asked |-> TRUE, rewritten |-> "rewrite" \in {steps[i] : i \in 1 .. Len(steps)},
          input |-> u]

\* create_retrieval_chain: the response of a run that did not raise is a
\* dict with the synthesised string under "answer".
ChainResponse(a) == [has |-> TRUE, answer |-> a]

\* response.get("answer", default), line 190.
DictGet(response, default) == IF response.has THEN response.answer ELSE default

\* A warning for the fallback string only.
LogsWarningOnFallback(answer) == answer = "no_answer"

\* lines 192-195: `if not answer` logs the warning.
LogsWarning(answer) == answer = ""

\* A chain that asks for the answer again when the first request failed.
ChainCallsWithRetry(steps, failAt) ==
    [i \in 1 .. Len(steps) |->
        [kind |-> steps[i],
         output |-> IF steps[i] = failAt THEN "raised" ELSE "returned"]]
    \o (IF failAt = "synthesize"
        THEN <<[kind |-> "synthesize", output |-> "raised"]>> ELSE <<>>)

\* The upstream calls of one chain run, line 185: each step that was reached
\* calls the LLM or the retriever once.
ChainCalls(steps, failAt) ==
    [i \in 1 .. Len(steps) |->
        [kind |-> steps[i],
         output |-> IF steps[i] = failAt THEN "raised" ELSE "returned"]]

RECURSIVE StepsUntil(_, _)
StepsUntil(steps, failAt) ==
    IF steps = <<>> THEN <<>>
    ELSE IF steps[1] = failAt THEN <<steps[1]>>
    ELSE <<steps[1]>> \o StepsUntil(Tail(steps), failAt)

SeqRange(q) == {q[i] : i \in 1..Len(q)}

NoRagCall == [active |-> FALSE, inst |-> "none", sid |-> NoSession,
              input |-> "none", before |-> <<>>]
NoRagLast == [op |-> "none", inst |-> "none", sid |-> NoSession, input |-> "none",
              status |-> "none", answer |-> "none", error |-> "none",
              steps |-> <<>>, before |-> <<>>, chainAnswer |-> "none", warned |-> FALSE,
              calls |-> <<>>, query |-> NoQuery]

RagInit ==
    /\ storeExists = FALSE
    /\ store = <<>>
    /\ rag = [i \in Instances |-> NoSession]
    /\ ragCall = NoRagCall
    /\ ragLast = NoRagLast
    /\ okLog = [s \in SessionIds |-> <<>>]

\* __init__, lines 31-92: keeps the session id and builds the chains; a failure
\* to load the LLM is wrapped and no instance results.  The store is not touched.
NewConversationalRAG(i, s, llmLoads) ==
    /\ ~ragCall.active
    /\ rag' = IF llmLoads THEN [rag EXCEPT ![i] = s] ELSE rag
    /\ ragLast' = [NoRagLast EXCEPT !.op = "init", !.inst = i, !.sid = s,
                     !.status = IF llmLoads THEN "ok" ELSE "error",
                     !.error = IF llmLoads THEN "none"
                               ELSE AllAboutDocumentsException("sys")]
    /\ UNCHANGED <<storeExists, store, ragCall, okLog>>
    /\ UNCHANGED nonRagVars

\* A configuration that names the session of the first instance.
ConfiguredSessionIdOfFirst(r, i) == r["r1"]

\* invoke, line 187: config={"configurable": {"session_id": self.session_id}}.
ConfiguredSessionId(r, i) == r[i]

\* invoke, lines 185-188, first half: RunnableWithMessageHistory looks the
\* history of self.session_id up through _get_session_history (lines 124-133).
InvokeBegin(i, u) ==
    /\ ~ragCall.active
    /\ rag[i] # NoSession
    /\ Len(Messages(rag[i])) < 2 * MaxTurns
    /\ storeExists' = TRUE
    /\ store' = GetSessionHistory(store, ConfiguredSessionId(rag, i))
    /\ ragCall' = [active |-> TRUE, inst |-> i, sid |-> ConfiguredSessionId(rag, i),
                   input |-> u,
                   before |-> Messages(ConfiguredSessionId(rag, i))]
    /\ UNCHANGED <<rag, ragLast, okLog>>
    /\ UNCHANGED nonRagVars

\* invoke, lines 185-214, second half: the chain runs; when no step raises the
\* turn is added to the history and the answer returned, otherwise the error
\* is logged and wrapped (lines 206-214).
InvokeEnd(failAt, a) ==
    /\ ragCall.active
    /\ failAt \in SeqRange(ChainSteps(store[ragCall.sid])) \cup {"none"}
    /\ store' = [store EXCEPT
                   ![ragCall.sid] = HistoryAfter(@, ragCall.input, a, failAt)]
    /\ okLog' = IF failAt = "none"
                THEN [okLog EXCEPT ![ragCall.sid] =
                        Append(@, [input |-> ragCall.input, answer |-> a])]
                ELSE okLog
    /\ ragLast' = [op |-> "invoke", inst |-> ragCall.inst, sid |-> ragCall.sid,
                   input |-> ragCall.input,
                   status |-> IF failAt = "none" THEN "ok" ELSE "error",
                   error |-> IF failAt = "none" THEN "none"
                             ELSE AllAboutDocumentsException("sys"),
                   steps |-> StepsUntil(ChainSteps(store[ragCall.sid]), failAt),
                   before |-> ragCall.before,
                   chainAnswer |-> IF failAt = "none" THEN a ELSE "raised",
                   warned |-> failAt = "none" /\ LogsWarning(DictGet(ChainResponse(a), "no_answer")),
                   calls |-> ChainCalls(StepsUntil(ChainSteps(store[ragCall.sid]), failAt),
                                        failAt),
                   query |-> RetrieverQuery(ChainSteps(store[ragCall.sid]), failAt,
                                            ragCall.input),
                   answer |-> IF failAt = "none" THEN DictGet(ChainResponse(a), "no_answer")
                              ELSE "none"]
    /\ ragCall' = NoRagCall
    /\ UNCHANGED <<storeExists, rag>>
    /\ UNCHANGED nonRagVars

NewRagStep ==
    \E i \in Instances, s \in SessionIds, ok \in BOOLEAN : NewConversationalRAG(i, s, ok)
InvokeBeginStep ==
    \E i \in Instances, u \in Inputs : InvokeBegin(i, u)
InvokeEndStep ==
    \E f \in {"none", "rewrite", "retrieve", "synthesize"}, a \in Answers : InvokeEnd(f, a)

RagNext ==
    \/ NewRagStep
    \/ InvokeBeginStep
    \/ InvokeEndStep

--------------------------------------------------------------------------
(* Upload names and their validation                                       *)

\* File names are sequences of characters.
N_a_pdf  == <<"a", ".", "p", "d", "f">>
N_b_pdf  == <<"b", ".", "p", "d", "f">>
N_a_PDF  == <<"a", ".", "P", "D", "F">>
N_a_txt  == <<"a", ".", "t", "x", "t">>
N_pdf    == <<"p", "d", "f">>
N_a_pdfx == <<"a", ".", "p", "d", "f", "x">>
DotPdf   == <<".", "p", "d", "f">>
\* Names that carry directories, as a client that sets the name can send.
N_up_a_pdf  == <<".", ".", "/", "a", ".", "p", "d", "f">>
N_abs_a_pdf == <<"/", "a", ".", "p", "d", "f">>
N_d_a_pdf   == <<"d", ".", "x", "/", "a", ".", "p", "d", "f">>
N_d_a       == <<"d", ".", "x", "/", "a">>

UploadNames == {N_a_pdf, N_b_pdf, N_a_PDF, N_a_txt, N_pdf, N_a_pdfx}
PathNames   == {N_a_pdf, N_up_a_pdf, N_abs_a_pdf, N_d_a_pdf, N_d_a}
\* The names a validator lets through, hence the names files can have on disk.
FileNames   == {N_a_pdf, N_b_pdf, N_a_PDF}
Bytes       == {"b1", "b2"}
NoFile      == "-"
Truncated   == "trunc"      \* a file opened "wb" whose write then failed
Uploads     == [name : UploadNames, bytes : Bytes]
PathUploads == [name : PathNames, bytes : {"b1"}]
EmptyFiles  == [n \in FileNames |-> NoFile]

\* str.endswith
EndsWith(name, suffix) ==
    /\ Len(name) >= Len(suffix)
    /\ SubSeq(name, Len(name) - Len(suffix) + 1, Len(name)) = suffix

\* str.lower
LowerChar(c) ==
    CASE c = "P" -> "p" [] c = "D" -> "d" [] c = "F" -> "f" [] OTHER -> c
Lower(name) == [i \in 1..Len(name) |-> LowerChar(name[i])]

\* os.path.basename: what follows the last "/".
RECURSIVE Basename(_)
Basename(name) ==
    IF \E i \in 1..Len(name) : name[i] = "/"
    THEN Basename(Tail(name))
    ELSE name

\* document_analyzer/data_ingestion.py:106
SavePdfAcceptsAny(name) == TRUE

SavePdfAccepts(name) == EndsWith(Lower(name), DotPdf)

\* document_comparator/data_ingestion.py:66-68
SaveUploadedAcceptsFirstOnly(n1, n2) == EndsWith(n1, DotPdf)

\* A check of the lower-cased names, as save_pdf makes it.
SaveUploadedAcceptsLowered(n1, n2) ==
    EndsWith(Lower(n1), DotPdf) /\ EndsWith(Lower(n2), DotPdf)

SaveUploadedAccepts(n1, n2) == ~(~EndsWith(n1, DotPdf) \/ ~EndsWith(n2, DotPdf))

\* A write that leaves a file that exists as it is.
WriteFileKeepsExisting(files, name, bytes, io) ==
    IF io = "open" \/ files[name] # NoFile THEN files
    ELSE [files EXCEPT ![name] = IF io = "write" THEN Truncated ELSE bytes]

\* open(path, "wb") followed by write(bytes): the directory's files afterwards.
\* io is "none", "open" (the open fails) or "write" (the write fails).
WriteFile(files, name, bytes, io) ==
    CASE io = "open"  -> files
      [] io = "write" -> [files EXCEPT ![name] = Truncated]
      [] OTHER        -> [files EXCEPT ![name] = bytes]

--------------------------------------------------------------------------
(* document_analyzer/data_ingestion.py: DocumentHandler                    *)

DocSessions == {"h1", "h2"}

NoUpLast == [op |-> "none", status |-> "none", error |-> "none", n1 |-> <<>>,
             n2 |-> <<>>, arg |-> 0, path |-> <<>>, given |-> "none",
             sections |-> <<>>]

\* A constructor that generates an id whatever it is given.
GenerateSessionIdAlways(given, fresh) == fresh

\* generate_session_id, lines 63-87: a truthy id is returned as it is, None and
\* "" give a generated one (a timestamp and a random suffix: an id not in use).
GenerateSessionId(given, fresh) == IF given # "None" /\ given # "" THEN given ELSE fresh

DocInit ==
    /\ docBase = [d \in DocSessions |-> [exists |-> FALSE, files |-> EmptyFiles]]
    /\ handler = "none"

\* __init__, lines 23-61
NewDocumentHandler(given, fresh) ==
    /\ clock < MaxInitTime + MaxOps /\ clock' = clock + 1
    /\ docBase[fresh].exists = FALSE \/ (given # "None" /\ given # "")
    /\ LET sid == GenerateSessionId(given, fresh) IN
       /\ handler' = sid
       /\ docBase' = [docBase EXCEPT ![sid].exists = TRUE]     \* makedirs(exist_ok=True)
       /\ upLast' = [NoUpLast EXCEPT !.op = "new_handler", !.status = "ok",
                                     !.path = <<sid>>, !.given = given]
    /\ UNCHANGED <<baseDir, ingestion, readLast, elsewhere, nonUpVars>>

\* save_pdf, lines 102-129
SavePdfCall(f, io) ==
    /\ clock' = clock + 1
    /\ handler # "none"
    /\ LET pdf_file_name == Basename(f.name) IN
       IF ~SavePdfAccepts(f.name)
       THEN \* line 107 raises with one argument; line 129 wraps what it caught
            /\ docBase' = docBase
            /\ upLast' = [NoUpLast EXCEPT !.op = "save_pdf", !.status = "error",
                            !.n1 = f.name,
                            !.error = AllAboutDocumentsException(
                                         AllAboutDocumentsException("missing"))]
       ELSE /\ docBase' = [docBase EXCEPT ![handler].files =
                              WriteFile(@, pdf_file_name, f.bytes, io)]
            /\ upLast' = [NoUpLast EXCEPT !.op = "save_pdf", !.n1 = f.name,
                            !.status = IF io = "none" THEN "ok" ELSE "error",
                            !.error = IF io = "none" THEN "none"
                                      ELSE AllAboutDocumentsException("OSError"),
                            !.path = IF io = "none" THEN <<handler, pdf_file_name>>
                                     ELSE <<>>]
    /\ UNCHANGED <<handler, baseDir, ingestion, readLast, elsewhere, nonUpVars>>

\* One of the MaxOps calls a run makes.
SavePdf(f, io) ==
    /\ clock < MaxInitTime + MaxOps
    /\ SavePdfCall(f, io)

--------------------------------------------------------------------------
(* document_comparator/data_ingestion.py: DocumentIngestion                *)

CmpSessions == {"d1", "d2", "d3"}
Stray       == "notes"              \* an entry of base_dir that is a plain file
Entries     == CmpSessions \cup {Stray}
RetainedValues == 0 .. 3            \* values passed as max_retained_logs

Absent == [kind |-> "absent", mtime |-> 0, files |-> EmptyFiles, sub |-> FALSE]
NewDir(t) == [kind |-> "dir", mtime |-> t, files |-> EmptyFiles, sub |-> FALSE]

SessionFolders(bd) == {e \in Entries : bd[e].kind = "dir"}       \* line 169
Present(files) == {n \in FileNames : files[n] # NoFile}
Min(a, b) == IF a <= b THEN a ELSE b

Perms(S) ==
    {q \in [1..Cardinality(S) -> S] : \A i, j \in 1..Cardinality(S) : q[i] = q[j] => i = j}

\* sorted(..., key=st_mtime, reverse=True), lines 168-172: newest first; folders
\* with equal st_mtime keep the order iterdir() gave them, which is any order.
SortedByMtimeDesc(bd) ==
    {q \in Perms(SessionFolders(bd)) :
        \A i, j \in 1..Len(q) : i < j => bd[q[i]].mtime >= bd[q[j]].mtime}

\* list[k:] with Python's slice rules (a negative k counts from the end).
SliceFromOffByOne(q, k) ==
    LET n == Len(q)
        start == IF k >= 0 THEN Min(k + 1, n)
                 ELSE IF n + k < 0 THEN 0 ELSE n + k
    IN SubSeq(q, start + 1, n)

SliceFrom(q, k) ==
    LET n == Len(q)
        start == IF k >= 0 THEN Min(k, n)
                 ELSE IF n + k < 0 THEN 0 ELSE n + k
    IN SubSeq(q, start + 1, n)

\* A loop that passes over a folder it cannot delete and goes on.
RECURSIVE DeleteFoldersSkipBlocked(_, _)
DeleteFoldersSkipBlocked(bd, doomed) ==
    IF doomed = <<>> THEN bd
    ELSE IF bd[doomed[1]].sub THEN DeleteFoldersSkipBlocked(bd, Tail(doomed))
    ELSE DeleteFoldersSkipBlocked([bd EXCEPT ![doomed[1]] = Absent], Tail(doomed))

\* Lines 175-178 for the folders of `doomed` in order: every file is unlinked
\* and the folder removed; unlink() raises on a sub-directory, which ends the
\* loop with this folder and the later ones still there.
RECURSIVE DeleteFolders(_, _)
DeleteFolders(bd, doomed) ==
    IF doomed = <<>> \/ bd[doomed[1]].sub THEN bd
    ELSE DeleteFolders([bd EXCEPT ![doomed[1]] = Absent], Tail(doomed))

\* The folders the loop removed, as line 180 logs them.
RECURSIVE DeletedFolders(_, _)
DeletedFolders(bd, doomed) ==
    IF doomed = <<>> \/ bd[doomed[1]].sub THEN <<>>
    ELSE <<doomed[1]>> \o DeletedFolders(bd, Tail(doomed))

RECURSIVE FirstBlocked(_, _)
FirstBlocked(bd, doomed) ==
    IF doomed = <<>> THEN "none"
    ELSE IF bd[doomed[1]].sub THEN doomed[1]
    ELSE FirstBlocked(bd, Tail(doomed))

Tick == clock < MaxInitTime + MaxOps /\ clock' = clock + 1

\* __init__, lines 24-45: `session_id or <generated>`, then
\* session_path.mkdir(parents=True, exist_ok=True), outside any try.
NewDocumentIngestion(given, fresh) ==
    /\ Tick
    /\ baseDir[fresh].kind = "absent" \/ (given # "None" /\ given # "")
    /\ LET sid == GenerateSessionId(given, fresh) IN
       CASE baseDir[sid].kind = "file" ->          \* mkdir: FileExistsError
              /\ UNCHANGED <<baseDir, ingestion>>
              /\ upLast' = [NoUpLast EXCEPT !.op = "new_ingestion", !.given = given,
                              !.status = "error", !.error = "FileExistsError"]
         [] baseDir[sid].kind = "dir" ->
              /\ ingestion' = sid
              /\ UNCHANGED baseDir
              /\ upLast' = [NoUpLast EXCEPT !.op = "new_ingestion", !.status = "ok",
                              !.path = <<sid>>, !.given = given]
         [] OTHER ->
              /\ ingestion' = sid
              /\ baseDir' = [baseDir EXCEPT ![sid] = NewDir(clock')]
              /\ upLast' = [NoUpLast EXCEPT !.op = "new_ingestion", !.status = "ok",
                              !.path = <<sid>>, !.given = given]
    /\ UNCHANGED <<docVars, readLast, elsewhere, nonUpVars>>

\* The components of a name between its "/" characters.
RECURSIVE SplitPath(_, _)
SplitPath(name, part) ==
    IF name = <<>> THEN <<part>>
    ELSE IF Head(name) = "/" THEN <<part>> \o SplitPath(Tail(name), <<>>)
    ELSE SplitPath(Tail(name), Append(part, Head(name)))

\* Where the operating system finds a path, taken from the session
\* directory: ".." leaves a directory for its parent - the session directory
\* for base_dir, base_dir for the rest of the file system.
RECURSIVE Walk(_, _)
Walk(at, parts) ==
    IF parts = <<>> THEN at
    ELSE IF Head(parts) \in {<<>>, <<".">>} THEN Walk(at, Tail(parts))
    ELSE IF Head(parts) = <<".", ".">>
    THEN Walk(IF at.rest # <<>> THEN [at EXCEPT !.rest = SubSeq(@, 1, Len(@) - 1)]
              ELSE IF at.root = "session" THEN [at EXCEPT !.root = "base_dir"]
              ELSE [at EXCEPT !.root = "filesystem"],
              Tail(parts))
    ELSE Walk([at EXCEPT !.rest = Append(@, Head(parts))], Tail(parts))

\* session_path / name, lines 72-73: an absolute name replaces the path.
PathJoin(name) ==
    IF name # <<>> /\ Head(name) = "/"
    THEN Walk([root |-> "filesystem", rest |-> <<>>], SplitPath(name, <<>>))
    ELSE Walk([root |-> "session", rest |-> <<>>], SplitPath(name, <<>>))

\* The path is a file directly in the session directory.
InSessionDir(to) == to.root = "session" /\ Len(to.rest) = 1

\* open(path, "wb") can succeed: the directory that is to hold the file
\* exists.  The program makes no directory inside a session directory.
Openable(to) == Len(to.rest) = 1

\* The session directory after the writes of lines 75-79; a file that did not
\* exist before is a new directory entry and sets the directory's st_mtime.
WriteInto(dir, name, bytes, io, t) ==
    [dir EXCEPT !.files = WriteFile(@, name, bytes, io),
                !.mtime = IF io # "open" /\ dir.files[name] = NoFile THEN t ELSE @]

\* save_uploaded_files, lines 64-93.  io tells which of the four file
\* operations fails, if any.
SaveUploadedFilesCall(f1, f2, io) ==
    /\ clock' = clock + 1
    /\ ingestion # "none"
    /\ LET dir == baseDir[ingestion]
           bad == ~SaveUploadedAccepts(f1.name, f2.name)
           gone == dir.kind # "dir"        \* the folder was removed by a cleanup
           io1 == CASE io = "open1" -> "open" [] io = "write1" -> "write" [] OTHER -> "none"
           io2 == CASE io = "open2" -> "open" [] io = "write2" -> "write" [] OTHER -> "none"
           \* lines 72-73: session_path / name, with no basename taken
           to1 == PathJoin(f1.name)
           to2 == PathJoin(f2.name)
           after1 == IF InSessionDir(to1)
                     THEN WriteInto(dir, to1.rest[1], f1.bytes, io1, clock')
                     ELSE dir
           after2 == IF io1 = "none" /\ InSessionDir(to2)
                     THEN WriteInto(after1, to2.rest[1], f2.bytes, io2, clock')
                     ELSE after1
           failed == bad \/ gone \/ io # "none"
       IN
       /\ (~bad /\ ~gone /\ ~Openable(to1)) => io = "open1"
       /\ (~bad /\ ~gone /\ Openable(to1) /\ ~Openable(to2))
             => io \in {"open1", "write1", "open2"}
       /\ baseDir' = IF bad \/ gone THEN baseDir
                     ELSE [baseDir EXCEPT ![ingestion] = after2]
       /\ elsewhere' =
            IF bad \/ gone THEN elsewhere
            ELSE elsewhere
                 \cup (IF ~InSessionDir(to1) /\ io1 # "open" THEN {to1} ELSE {})
                 \cup (IF ~InSessionDir(to2) /\ io1 = "none" /\ io2 # "open"
                       THEN {to2} ELSE {})
       /\ upLast' = [NoUpLast EXCEPT !.op = "save_uploaded_files",
                       !.n1 = f1.name, !.n2 = f2.name,
                       !.status = IF failed THEN "error" ELSE "ok",
                       !.error = IF failed
                                 THEN AllAboutDocumentsException(
                                        IF bad THEN "ValueError" ELSE "OSError")
                                 ELSE "none",
                       !.path = IF failed THEN <<>>
                                ELSE <<ingestion, f1.name, ingestion, f2.name>>]
    /\ UNCHANGED <<ingestion, docVars, readLast, nonUpVars>>

\* One of the MaxOps calls a run makes.
SaveUploadedFiles(f1, f2, io) ==
    /\ clock < MaxInitTime + MaxOps
    /\ SaveUploadedFilesCall(f1, f2, io)

\* delete_old_sessions, lines 160-186.  `removed` are the files of the folder
\* that holds a sub-directory which iterdir() yielded, and unlink() removed,
\* before the sub-directory came up.
DeleteOldSessions(max_retained_logs) ==
    /\ Tick
    /\ ingestion # "none"
    /\ \E session_folders \in SortedByMtimeDesc(baseDir) :
         LET doomed  == SliceFrom(session_folders, max_retained_logs)
             blocked == FirstBlocked(baseDir, doomed)
             done    == DeleteFolders(baseDir, doomed)
         IN
         /\ \E removed \in (IF blocked = "none" THEN {{}}
                             ELSE SUBSET Present(baseDir[blocked].files)) :
              baseDir' =
                IF removed = {} THEN done
                ELSE [done EXCEPT
                        ![blocked].files =
                            [n \in FileNames |-> IF n \in removed THEN NoFile ELSE @[n]],
                        ![blocked].mtime = clock']
         /\ upLast' = [NoUpLast EXCEPT !.op = "delete_old_sessions",
                         !.arg = max_retained_logs,
                         !.path = DeletedFolders(baseDir, doomed),
                         !.status = IF blocked = "none" THEN "ok" ELSE "error",
                         !.error = IF blocked = "none" THEN "none"
                                   ELSE AllAboutDocumentsException("OSError")]
    /\ UNCHANGED <<ingestion, docVars, readLast, elsewhere, nonUpVars>>

--------------------------------------------------------------------------
(* utils/model_loader.py: ModelLoader                                      *)

Unset == "unset"                        \* os.getenv gives None
ApiKeys == {"GOOGLE_API_KEY", "GROQ_API_KEY"}    \* line 34
EnvNames == ApiKeys \cup {"LLM_PROVIDER"}
KeyValues == {Unset, "", "key"}
ProviderValues == {Unset, "google", "groq", "azure"}
NoConfig == [readable |-> FALSE, embedding |-> FALSE, LLMs |-> <<>>]

\* config.yaml as found on disk: missing, or the blocks under LLMs with
\* their provider entry, and whether embedding_model is present.
ConfigFiles ==
    { NoConfig,
      [readable |-> TRUE, embedding |-> TRUE,
       LLMs |-> [b \in {"google", "groq"} |-> b]],
      [readable |-> TRUE, embedding |-> TRUE,
       LLMs |-> [b \in {"google", "groq"} |-> IF b = "google" THEN "groq" ELSE "openai"]],
      [readable |-> TRUE, embedding |-> FALSE,
       LLMs |-> [b \in {"google"} |-> "google"]] }

Environments ==
    { e \in [EnvNames -> KeyValues \cup ProviderValues] :
        /\ \A k \in ApiKeys : e[k] \in KeyValues
        /\ e["LLM_PROVIDER"] \in ProviderValues }
DotenvFiles ==
    { e \in Environments : e["LLM_PROVIDER"] \in {Unset, "groq"} }

\* load_dotenv(), line 23: a variable of the .env file is set only when the
\* environment does not have it already (override=False).
LoadDotenv(env, file) ==
    [n \in EnvNames |-> IF env[n] = Unset THEN file[n] ELSE env[n]]

\* os.getenv(name, default)
Getenv(env, name, default) == IF env[name] = Unset THEN default ELSE env[name]

\* Python truthiness of an optional string.
Truthy(v) == v \notin {Unset, ""}

\* A validation that only looks for None.
MissingApiKeysNoneOnly(api_keys) == {k \in ApiKeys : api_keys[k] = Unset}

\* _validate_environment_variables, lines 43-45: `if not api_value`.
MissingApiKeys(api_keys) == {k \in ApiKeys : ~Truthy(api_keys[k])}

NoLoader == [exists |-> FALSE, api_keys |-> [k \in ApiKeys |-> Unset], config |-> NoConfig]
NoMlLast == [op |-> "none", status |-> "none", error |-> "none", events |-> <<>>, made |-> "none"]

LoaderInit ==
    /\ environ \in Environments
    /\ dotenvFile \in DotenvFiles
    /\ configYaml \in ConfigFiles
    /\ loader = NoLoader
    /\ clients = <<>>
    /\ mlLast = NoMlLast

\* ModelLoader.__init__, lines 21-26.  The failing validation raises at the
\* logger call of lines 49-52 (a positional argument the logger cannot
\* format) or at line 53, where the exception class is handed `sys`.
NewModelLoader(logRaises) ==
    LET env == LoadDotenv(environ, dotenvFile)
        api_keys == [k \in ApiKeys |-> Getenv(env, k, Unset)]
        missing == MissingApiKeys(api_keys)
    IN  /\ environ' = env
        /\ IF missing # {}
           THEN /\ mlLast' = [NoMlLast EXCEPT !.op = "init", !.status = "error",
                                !.error = IF logRaises THEN "TypeError"
                                          ELSE AllAboutDocumentsException("sys"),
                                !.events = <<"load_dotenv", "validate">>]
                /\ UNCHANGED loader
           ELSE IF ~configYaml.readable
           THEN /\ mlLast' = [NoMlLast EXCEPT !.op = "init", !.status = "error",
                                !.error = "FileNotFoundError",
                                !.events = <<"load_dotenv", "validate", "load_config">>]
                /\ UNCHANGED loader
           ELSE /\ mlLast' = [NoMlLast EXCEPT !.op = "init", !.status = "ok",
                                !.events = <<"load_dotenv", "validate", "load_config">>]
                /\ loader' = [exists |-> TRUE, api_keys |-> api_keys, config |-> configYaml]
        /\ UNCHANGED <<dotenvFile, configYaml, clients, nonMlVars>>

\* A provider key that falls back to the block "groq".
LlmProviderKeyGroqDefault(env) == Getenv(env, "LLM_PROVIDER", "groq")

\* os.getenv("LLM_PROVIDER", "google"), line 92.
LlmProviderKey(env) == Getenv(env, "LLM_PROVIDER", "google")

\* load_llm, lines 79-138.
LoadLlm ==
    /\ loader.exists
    /\ Len(clients) < MaxClients
    /\ LET llm_block == loader.config.LLMs
           llm_provider_key == LlmProviderKey(environ)
           llm_provider == llm_block[llm_provider_key]
           made == IF llm_provider = "google" THEN "ChatGoogleGenerativeAI" ELSE "ChatGroq"
       IN  IF llm_provider_key \notin DOMAIN llm_block
           THEN /\ mlLast' = [NoMlLast EXCEPT !.op = "load_llm", !.status = "error",
                                !.error = "ValueError"]
                /\ UNCHANGED clients
           ELSE IF llm_provider \in {"google", "groq"}
           THEN /\ mlLast' = [NoMlLast EXCEPT !.op = "load_llm", !.status = "ok", !.made = made]
                /\ clients' = Append(clients, made)
           ELSE /\ mlLast' = [NoMlLast EXCEPT !.op = "load_llm", !.status = "error",
                                !.error = "ValueError"]
                /\ UNCHANGED clients
    /\ UNCHANGED <<environ, dotenvFile, configYaml, loader, nonMlVars>>

\* load_embeddings, lines 61-77.
LoadEmbeddings(clientFails) ==
    /\ loader.exists
    /\ Len(clients) < MaxClients
    /\ IF ~loader.config.embedding \/ clientFails
       THEN /\ mlLast' = [NoMlLast EXCEPT !.op = "load_embeddings", !.status = "error",
                            !.error = AllAboutDocumentsException("sys")]
            /\ UNCHANGED clients
       ELSE /\ mlLast' = [NoMlLast EXCEPT !.op = "load_embeddings", !.status = "ok",
                            !.made = "GoogleGenerativeAIEmbeddings"]
            /\ clients' = Append(clients, "GoogleGenerativeAIEmbeddings")
    /\ UNCHANGED <<environ, dotenvFile, configYaml, loader, nonMlVars>>

NewLoaderStep == \E logRaises \in BOOLEAN : NewModelLoader(logRaises)
LoadLlmStep == LoadLlm
LoadEmbeddingsStep == \E clientFails \in BOOLEAN : LoadEmbeddings(clientFails)

LoaderNext ==
    \/ NewLoaderStep
    \/ LoadLlmStep
    \/ LoadEmbeddingsStep

--------------------------------------------------------------------------
(* document_metadata_analysis.py and document_comparison.py: the chains    *)

\* document_text / combined_docs; "same_twice" is what combine_documents
\* returns for two files with the same text.
Texts == {"", "text1", "text2", "same_twice"}
\* What the LLM may answer: a JSON list of records, a JSON object of
\* scalars, and two answers that are not JSON.
Completions == {"json_records", "json_changed", "json_object", "not_json_a", "not_json_b"}
ChainOps == {"analyze_document", "compare_documents"}

\* JsonOutputParser.parse: the parsed value, or OutputParserException.
IsJson(completion) == completion \in {"json_records", "json_changed", "json_object"}
ParseJson(completion) ==
    CASE completion = "json_records" -> "list_of_dicts"
      [] completion = "json_changed" -> "list_of_dicts"
      [] completion = "json_object"  -> "dict"
      [] OTHER                       -> "OutputParserException"

\* Page records that all say "No Change", whatever the LLM answered.
RecordsAllNoChange(completion) == <<[Page |-> "1", Changes |-> "No Change"]>>

\* The page records in a completion that is a list of records: the one the
\* LLM answers when it finds no difference, and one that reports a change.
Records(completion) ==
    CASE completion = "json_records" -> <<[Page |-> "1", Changes |-> "No Change"]>>
      [] completion = "json_changed" -> <<[Page |-> "1", Changes |-> "changed"]>>
      [] OTHER -> <<>>

\* _format_response, lines 86-107: pd.DataFrame of a list of records is a
\* table; of a dict of scalars it raises ValueError.
FormatResponse(parsed) ==
    IF parsed = "list_of_dicts" THEN "DataFrame" ELSE "ValueError"

\* Both chains ending in the fixing parser.
ParserRetriesBoth(op) == MaxRetries

\* The parser at the end of each chain: OutputFixingParser.from_llm in the
\* analyzer (lines 25-27 and 60-62), the plain JsonOutputParser in the
\* comparator (line 52; the fixing parser is commented out, lines 44-47).
ParserRetries(op) == IF op = "analyze_document" THEN MaxRetries ELSE 0

NoChain ==
    [op |-> "none", pc |-> "idle", text |-> "", completion |-> "none", retries |-> 0,
     llmCalls |-> <<>>, status |-> "none", error |-> "none", value |-> "none",
     table |-> <<>>]

ChainInit == chain = NoChain

\* The except clause of analyze_document (lines 77-84) and of
\* compare_documents (lines 80-84).
ChainFails(c, e) ==
    [c EXCEPT !.pc = "done", !.status = "error",
              !.error = AllAboutDocumentsException(e)]

\* analyze_document, line 66, and compare_documents, line 75: chain.invoke
\* formats the prompt and calls the LLM.
ChainInvoke(op, text) ==
    /\ chain.pc \in {"idle", "done"}
    /\ chain' = [NoChain EXCEPT !.op = op, !.pc = "llm", !.text = text]
    /\ UNCHANGED nonChVars

\* The LLM answers the prompt.
LlmReturns(completion) ==
    /\ chain.pc = "llm"
    /\ chain' = [chain EXCEPT !.pc = "parse", !.completion = completion,
                   !.llmCalls = Append(@, [kind |-> "prompt", input |-> chain.text,
                                           output |-> completion])]
    /\ UNCHANGED nonChVars

\* The LLM call raises.
LlmRaises ==
    /\ chain.pc = "llm"
    /\ chain' = ChainFails([chain EXCEPT !.llmCalls =
                   Append(@, [kind |-> "prompt", input |-> chain.text, output |-> "raised"])],
                   "Exception")
    /\ UNCHANGED nonChVars

\* The parser at the end of the chain.  OutputFixingParser.parse tries the
\* wrapped parser, and on OutputParserException asks the LLM to repair the
\* completion while retries < max_retries; the plain parser just raises.
\* compare_documents then builds the DataFrame (line 78).
ParseCompletion ==
    /\ chain.pc = "parse"
    /\ chain' =
         IF IsJson(chain.completion)
         THEN LET parsed == ParseJson(chain.completion) IN
              IF chain.op = "analyze_document"
              THEN [chain EXCEPT !.pc = "done", !.status = "ok", !.value = parsed]
              ELSE IF FormatResponse(parsed) = "DataFrame"
              THEN [chain EXCEPT !.pc = "done", !.status = "ok", !.value = "DataFrame",
                                 !.table = Records(chain.completion)]
              ELSE ChainFails(chain, AllAboutDocumentsException("ValueError"))
         ELSE IF chain.retries = ParserRetries(chain.op)
         THEN ChainFails(chain, "OutputParserException")
         ELSE [chain EXCEPT !.pc = "repair", !.retries = @ + 1]
    /\ UNCHANGED nonChVars

\* The repair call of the fixing parser answers.
RepairReturns(completion) ==
    /\ chain.pc = "repair"
    /\ chain' = [chain EXCEPT !.pc = "parse", !.completion = completion,
                   !.llmCalls = Append(@, [kind |-> "repair", input |-> chain.completion,
                                           output |-> completion])]
    /\ UNCHANGED nonChVars

\* The repair call raises.
RepairRaises ==
    /\ chain.pc = "repair"
    /\ chain' = ChainFails([chain EXCEPT !.llmCalls =
                   Append(@, [kind |-> "repair", input |-> chain.completion, output |-> "raised"])],
                   "Exception")
    /\ UNCHANGED nonChVars

ChainInvokeStep == \E op \in ChainOps, text \in Texts : ChainInvoke(op, text)
LlmReturnsStep == \E completion \in Completions : LlmReturns(completion)
LlmRaisesStep == LlmRaises
ParseCompletionStep == ParseCompletion
RepairReturnsStep == \E completion \in Completions : RepairReturns(completion)
RepairRaisesStep == RepairRaises

ChainNext ==
    \/ ChainInvokeStep
    \/ LlmReturnsStep
    \/ LlmRaisesStep
    \/ ParseCompletionStep
    \/ RepairReturnsStep
    \/ RepairRaisesStep

--------------------------------------------------------------------------
(* chat_with_a_document/data_ingestion.py: SingleDocumentIngestor          *)

\* The uploaded file-like objects: a name and what read() returns - a PDF
\* with text, a PDF without text, or bytes that are not a PDF.
IngestUploads ==
    { [name |-> N_a_pdf, content |-> "pdfA"],
      [name |-> N_a_txt, content |-> "pdfB"],
      [name |-> N_a_pdf, content |-> "blank"],
      [name |-> N_a_pdf, content |-> "corrupt"] }
UploadLists == UNION { [1 .. n -> IngestUploads] : n \in 0 .. MaxFiles }

\* Path(name).suffix, line 79: from the last dot of the final component of
\* the name, unless that dot is its first or its last character.
RECURSIVE LastDot(_, _)
LastDot(name, i) ==
    IF i = 0 THEN 0
    ELSE IF name[i] = "." THEN i
    ELSE LastDot(name, i - 1)
Suffix(name) ==
    LET final == Basename(name)
        i == LastDot(final, Len(final))
    IN  IF 1 < i /\ i < Len(final) THEN SubSeq(final, i, Len(final)) ELSE <<>>

\* PyPDFLoader(path).load(), lines 96-97: one Document per page.
PyPDFLoad(content) ==
    CASE content = "pdfA"  -> [ok |-> TRUE,  pages |-> <<"A">>]
      [] content = "pdfB"  -> [ok |-> TRUE,  pages |-> <<"B">>]
      [] content = "blank" -> [ok |-> TRUE,  pages |-> <<"">>]
      [] OTHER             -> [ok |-> FALSE, pages |-> <<>>]

\* splitter.split_documents, lines 122-125, for pages shorter than
\* chunk_size: a chunk per page with text, none for a page without.
SplitDocuments(documents) == SelectSeq(documents, LAMBDA d : d # "")

\* RecursiveCharacterTextSplitter(chunk_size=1000, chunk_overlap=300),
\* lines 122-124.
ChunkSize == 1000
ChunkOverlap == 300

\* A text as the splitter sees it: the lengths of the pieces it falls into at
\* the separator in use, each piece with its separator.  A piece longer than
\* chunk_size is split again at the next separator, down to characters, so
\* the pieces that are merged are never longer than chunk_size.
PieceLengths == {100, 300, 400, 700, 1000}
SplitTexts == UNION { [1 .. n -> PieceLengths] : n \in 0 .. MaxPieces }

RECURSIVE SumLengths(_, _, _)
SumLengths(lens, from, to) ==
    IF from > to THEN 0 ELSE lens[from] + SumLengths(lens, from + 1, to)

\* A merge that never drops pieces from the chunk under construction.
DropNothing(lens, start, total, len) == [start |-> start, total |-> total]

\* The inner loop of _merge_splits: pieces leave the front of current_doc
\* while it is longer than chunk_overlap, or too long to take the next piece.
RECURSIVE DropFromFront(_, _, _, _)
DropFromFront(lens, start, total, len) ==
    IF total > ChunkOverlap \/ (total + len > ChunkSize /\ total > 0)
    THEN DropFromFront(lens, start + 1, total - lens[start], len)
    ELSE [start |-> start, total |-> total]

\* _merge_splits: current_doc holds the pieces start .. d-1, of length
\* total; a chunk is the range of pieces it is joined from.
RECURSIVE MergeSplits(_, _, _, _, _)
MergeSplits(lens, d, start, total, docs) ==
    IF d > Len(lens)
    THEN IF start <= Len(lens) THEN Append(docs, [from |-> start, to |-> Len(lens)])
         ELSE docs
    ELSE IF total + lens[d] > ChunkSize /\ start <= d - 1
    THEN LET kept == DropFromFront(lens, start, total, lens[d]) IN
         MergeSplits(lens, d + 1, kept.start, kept.total + lens[d],
                     Append(docs, [from |-> start, to |-> d - 1]))
    ELSE MergeSplits(lens, d + 1, start, total + lens[d], docs)

\* splitter.split_documents on one document, line 125.
SplitText(lens) == MergeSplits(lens, 1, 1, 0, <<>>)

NoSplitLast == [done |-> FALSE, lens |-> <<>>, chunks |-> <<>>]
SplitInit == splitLast = NoSplitLast

SplitOne(lens) ==
    /\ splitLast' = [done |-> TRUE, lens |-> lens, chunks |-> SplitText(lens)]
    /\ UNCHANGED nonSplVars

SplitOneStep == \E lens \in SplitTexts : SplitOne(lens)

SplitNext ==
    \/ SplitOneStep

\* A file of faiss_dir: absent, cut short by a failed write, or holding chunks.
NoPart == [state |-> "absent", chunks |-> <<>>]
TruncatedPart == [state |-> "truncated", chunks |-> <<>>]
Written(chunks) == [state |-> "written", chunks |-> chunks]
NoIndex == [faiss |-> NoPart, pkl |-> NoPart]
NoRetriever == [made |-> FALSE, chunks |-> <<>>]
NoFail == [at |-> "none", idx |-> 0]
FailPoints(files) ==
    {NoFail}
    \cup { [at |-> a, idx |-> i] : a \in {"open", "write"}, i \in 1 .. Len(files) }
    \cup { [at |-> a, idx |-> 0] :
             a \in {"load_embeddings", "from_documents",
                    "faiss_open", "faiss_write", "pkl_open", "pkl_write"} }

\* The failures that can happen to a call with these files: none after the
\* first file that does not load.
RECURSIVE FirstUnloadable(_, _)
FirstUnloadable(files, i) ==
    IF i > Len(files) \/ ~PyPDFLoad(files[i].content).ok THEN i
    ELSE FirstUnloadable(files, i + 1)
ReachableFailPoints(files) ==
    LET k == FirstUnloadable(files, 1) IN
    { f \in FailPoints(files) :
        k <= Len(files) => (f = NoFail \/ (f.at \in {"open", "write"} /\ f.idx <= k)) }

\* The loop of ingest_files, lines 76-98, from file i on: the entries of
\* data_dir, the documents loaded, and where it stopped.  A unique file name
\* (lines 78-83) makes every saved file a new entry.
RECURSIVE SaveAndLoad(_, _, _, _, _)
SaveAndLoad(dir, documents, files, i, fail) ==
    IF i > Len(files)
    THEN [dir |-> dir, documents |-> documents, stage |-> "none", idx |-> 0]
    ELSE LET entry == [suffix |-> Suffix(files[i].name), content |-> files[i].content]
             loaded == PyPDFLoad(files[i].content)
         IN  IF fail = [at |-> "open", idx |-> i]
             THEN [dir |-> dir, documents |-> documents, stage |-> "save", idx |-> i]
             ELSE IF fail = [at |-> "write", idx |-> i]
             THEN [dir |-> Append(dir, [entry EXCEPT !.content = Truncated]),
                   documents |-> documents, stage |-> "save", idx |-> i]
             ELSE IF ~loaded.ok
             THEN [dir |-> Append(dir, entry), documents |-> documents,
                   stage |-> "load", idx |-> i]
             ELSE SaveAndLoad(Append(dir, entry), documents \o loaded.pages, files, i + 1, fail)

\* A save_local that adds the chunks to the index already on disk.
SaveLocalMerge(index, chunks, fail) ==
    [faiss |-> Written(index.faiss.chunks \o chunks),
     pkl |-> Written(index.pkl.chunks \o chunks)]

\* vectorstore.save_local, line 137: index.faiss is written, then index.pkl.
SaveLocal(index, chunks, fail) ==
    CASE fail.at = "faiss_open"  -> index
      [] fail.at = "faiss_write" -> [index EXCEPT !.faiss = TruncatedPart]
      [] fail.at = "pkl_open"    -> [index EXCEPT !.faiss = Written(chunks)]
      [] fail.at = "pkl_write"   -> [faiss |-> Written(chunks), pkl |-> TruncatedPart]
      [] OTHER                   -> [faiss |-> Written(chunks), pkl |-> Written(chunks)]

\* The embedding requests of FAISS.from_documents, lines 130-134: none when
\* the embedding client could not be loaded or there is nothing to embed,
\* otherwise one, which returns the vectors or raises.
EmbedCalls(chunks, fail) ==
    CASE fail.at = "load_embeddings" \/ chunks = <<>> -> <<>>
      [] fail.at = "from_documents" ->
            <<[kind |-> "embed", input |-> chunks, output |-> "raised"]>>
      [] OTHER -> <<[kind |-> "embed", input |-> chunks, output |-> "vectors"]>>

\* A retriever construction that writes the index before it embeds.
CreateRetrieverPersistFirst(documents, fail, index) ==
    LET chunks == SplitDocuments(documents) IN
    IF fail.at \in {"load_embeddings", "from_documents"} \/ chunks = <<>>
    THEN [stage |-> "embed", index |-> SaveLocal(index, chunks, NoFail),
          retriever |-> NoRetriever, calls |-> EmbedCalls(chunks, fail)]
    ELSE [stage |-> "none", index |-> SaveLocal(index, chunks, NoFail),
          retriever |-> [made |-> TRUE, chunks |-> chunks],
          calls |-> EmbedCalls(chunks, fail)]

\* _create_retriever, lines 120-150: split, load the embedding client, embed
\* (FAISS.from_documents fails on an empty list of chunks), persist, and
\* return the retriever.
CreateRetriever(documents, fail, index) ==
    LET chunks == SplitDocuments(documents) IN
    IF fail.at \in {"load_embeddings", "from_documents"} \/ chunks = <<>>
    THEN [stage |-> "embed", index |-> index, retriever |-> NoRetriever,
          calls |-> EmbedCalls(chunks, fail)]
    ELSE IF fail.at \in {"faiss_open", "faiss_write", "pkl_open", "pkl_write"}
    THEN [stage |-> "persist", index |-> SaveLocal(index, chunks, fail),
          retriever |-> NoRetriever, calls |-> EmbedCalls(chunks, fail)]
    ELSE [stage |-> "none", index |-> SaveLocal(index, chunks, fail),
          retriever |-> [made |-> TRUE, chunks |-> chunks],
          calls |-> EmbedCalls(chunks, fail)]

NoIngLast ==
    [op |-> "none", status |-> "none", error |-> "none", stage |-> "none", idx |-> 0,
     files |-> <<>>, retriever |-> NoRetriever, prior |-> NoIndex, calls |-> <<>>]

IngestInit ==
    /\ dataDir = <<>>
    /\ faissIndex = NoIndex
    /\ ingLast = NoIngLast

\* ingest_files, lines 60-108.
IngestFiles(isList, files, fail) ==
    /\ Len(dataDir) + Len(files) <= MaxDataFiles
    /\ isList \/ (files = <<>> /\ fail = NoFail)
    /\ IF ~isList
       THEN /\ ingLast' = [NoIngLast EXCEPT !.op = "ingest_files", !.status = "error",
                             !.error = "ValueError", !.stage = "isinstance"]
            /\ UNCHANGED <<dataDir, faissIndex>>
       ELSE LET saved == SaveAndLoad(dataDir, <<>>, files, 1, fail)
                made == CreateRetriever(saved.documents, fail, faissIndex)
            IN  IF saved.stage # "none"
                THEN /\ dataDir' = saved.dir
                     /\ UNCHANGED faissIndex
                     /\ ingLast' = [NoIngLast EXCEPT !.op = "ingest_files",
                                      !.status = "error",
                                      !.error = AllAboutDocumentsException("sys"),
                                      !.stage = saved.stage, !.idx = saved.idx,
                                      !.files = files, !.prior = faissIndex]
                ELSE /\ dataDir' = saved.dir
                     /\ faissIndex' = made.index
                     /\ ingLast' =
                          IF made.stage # "none"
                          THEN [NoIngLast EXCEPT !.op = "ingest_files", !.status = "error",
                                  !.error = AllAboutDocumentsException("sys"),
                                  !.stage = made.stage, !.files = files,
                                  !.prior = faissIndex, !.calls = made.calls]
                          ELSE [NoIngLast EXCEPT !.op = "ingest_files", !.status = "ok",
                                  !.files = files, !.retriever = made.retriever,
                                  !.prior = faissIndex, !.calls = made.calls]
    /\ UNCHANGED nonIngVars

IngestFilesStep ==
    \E isList \in BOOLEAN, files \in UploadLists :
        \E fail \in ReachableFailPoints(files) : IngestFiles(isList, files, fail)

IngestNext ==
    \/ IngestFilesStep

\* ingest_files on one readable upload whose name carries directories.
IngestPathStep ==
    \E n \in {N_up_a_pdf, N_d_a} :
        IngestFiles(TRUE, <<[name |-> n, content |-> "pdfA"]>>, NoFail)

--------------------------------------------------------------------------
(* The two PDF readers: read_pdf and read_document                         *)

\* The text PyMuPDF extracts from a page: some text, nothing, or white space.
PageTexts == {"text", "", " "}
\* A file handed to a reader: a PDF with its pages, possibly encrypted, or
\* bytes that fitz cannot open.
PdfFiles ==
    { [valid |-> TRUE, encrypted |-> e, pages |-> p] :
        e \in BOOLEAN, p \in UNION { [1 .. n -> PageTexts] : n \in 1 .. MaxPages } }
    \cup { [valid |-> FALSE, encrypted |-> FALSE, pages |-> <<>>] }

\* The text a reader returns, as the pieces it is put together from.
Marker(i) == [kind |-> "marker", page |-> i, s |-> "Page"]
Piece(i, t) == [kind |-> "text", page |-> i, s |-> t]
Sep(s) == [kind |-> "sep", page |-> 0, s |-> s]
\* A piece of no characters adds nothing to a string.
Pieces(i, t) == IF t = "" THEN <<>> ELSE <<Piece(i, t)>>

\* sep.join(parts)
RECURSIVE Join(_, _)
Join(sep, parts) ==
    IF parts = <<>> THEN <<>>
    ELSE IF Len(parts) = 1 THEN parts[1]
    ELSE parts[1] \o <<Sep(sep)>> \o Join(sep, Tail(parts))

\* A reader that keeps every page.
PageHasTextAlways(t) == TRUE

\* read_document, line 114: `if page_text.strip()`.
PageHasText(t) == t \notin {"", " "}

\* read_pdf, lines 148-154: a marker and the text for every page, joined.
RECURSIVE ReadPdfChunks(_, _)
ReadPdfChunks(pages, i) ==
    IF i > Len(pages) THEN <<>>
    ELSE <<<<Marker(i)>> \o Pieces(i, pages[i])>> \o ReadPdfChunks(pages, i + 1)
ReadPdfText(pages) == Join(".\n", ReadPdfChunks(pages, 1))

\* read_document, lines 109-126: a marker and the text for the pages that
\* have text, joined.
RECURSIVE ReadDocumentExtract(_, _)
ReadDocumentExtract(pages, i) ==
    IF i > Len(pages) THEN <<>>
    ELSE (IF PageHasText(pages[i])
          THEN <<<<Marker(i)>> \o Pieces(i, pages[i])>>
          ELSE <<>>)
         \o ReadDocumentExtract(pages, i + 1)
ReadDocumentText(pages) == Join("\n", ReadDocumentExtract(pages, 1))

\* A document that never counts as encrypted.
IsEncryptedNever(file) == FALSE

\* doc.is_encrypted: read_document tests it (line 106); in read_pdf the
\* iteration of line 149 loads the first page, which an encrypted document
\* that was not authenticated refuses.
IsEncrypted(file) == file.encrypted

NoReadLast == [op |-> "none", status |-> "none", error |-> "none",
               file |-> [valid |-> FALSE, encrypted |-> FALSE, pages |-> <<>>],
               text |-> <<>>]
ReadInit == readLast = NoReadLast

\* DocumentHandler.read_pdf, lines 131-167.
ReadPdf(file) ==
    /\ readLast' =
         IF file.valid /\ ~IsEncrypted(file)
         THEN [op |-> "read_pdf", status |-> "ok", error |-> "none", file |-> file,
               text |-> ReadPdfText(file.pages)]
         ELSE [op |-> "read_pdf", status |-> "error",
               error |-> AllAboutDocumentsException("Exception"), file |-> file,
               text |-> <<>>]
    /\ UNCHANGED <<docVars, cmpVars, upLast, elsewhere, nonUpVars>>

\* DocumentIngestion.read_document, lines 95-130.
ReadDocument(file) ==
    /\ readLast' =
         IF file.valid /\ ~IsEncrypted(file)
         THEN [op |-> "read_document", status |-> "ok", error |-> "none", file |-> file,
               text |-> ReadDocumentText(file.pages)]
         ELSE [op |-> "read_document", status |-> "error",
               error |-> AllAboutDocumentsException(
                            IF file.valid THEN "ValueError" ELSE "Exception"),
               file |-> file, text |-> <<>>]
    /\ UNCHANGED <<docVars, cmpVars, upLast, elsewhere, nonUpVars>>

ReadPdfStep == \E file \in PdfFiles : ReadPdf(file)
ReadDocumentStep == \E file \in PdfFiles : ReadDocument(file)

ReadNext ==
    \/ ReadPdfStep
    \/ ReadDocumentStep

--------------------------------------------------------------------------
(* document_comparator/data_ingestion.py: combine_documents                *)

\* The PDF that the bytes of a file are: two documents of different text, and
\* a file cut short by a failed write, which fitz cannot open.
PdfOf(bytes) ==
    CASE bytes = "b1" -> [valid |-> TRUE, encrypted |-> FALSE, pages |-> <<"text">>]
      [] bytes = "b2" -> [valid |-> TRUE, encrypted |-> FALSE, pages |-> <<"text", "text">>]
      [] OTHER        -> [valid |-> FALSE, encrypted |-> FALSE, pages |-> <<>>]

\* The order of characters, and of names, that sorted() uses.
CharRank(c) ==
    CASE c = "." -> 1 [] c = "/" -> 2 [] c = "D" -> 3 [] c = "F" -> 4 [] c = "P" -> 5
      [] c = "a" -> 6 [] c = "b" -> 7 [] c = "d" -> 8 [] c = "f" -> 9 [] c = "p" -> 10
      [] c = "t" -> 11 [] OTHER -> 12
RECURSIVE NameLess(_, _)
NameLess(a, b) ==
    IF b = <<>> THEN FALSE
    ELSE IF a = <<>> THEN TRUE
    ELSE IF Head(a) # Head(b) THEN CharRank(Head(a)) < CharRank(Head(b))
    ELSE NameLess(Tail(a), Tail(b))

\* The files from the last name to the first.
SortedGlobReverse(files) ==
    CHOOSE q \in Perms({n \in Present(files) : EndsWith(n, DotPdf)}) :
        \A i, j \in 1 .. Len(q) : i < j => NameLess(q[j], q[i])

\* sorted(self.session_path.glob("*.pdf")), line 144.
SortedGlob(files) ==
    CHOOSE q \in Perms({n \in Present(files) : EndsWith(n, DotPdf)}) :
        \A i, j \in 1 .. Len(q) : i < j => NameLess(q[i], q[j])

\* combine_documents, lines 132-158: a section per file, "Document: name"
\* and what read_document returns for it; a file that cannot be read fails
\* the call.  Globbing a directory that is gone yields nothing.
CombineDocuments ==
    /\ ingestion # "none"
    /\ LET dir == baseDir[ingestion]
           names == IF dir.kind = "dir" THEN SortedGlob(dir.files) ELSE <<>>
           pdf(n) == PdfOf(dir.files[n])
           unreadable == \E i \in 1 .. Len(names) :
                            ~pdf(names[i]).valid \/ IsEncrypted(pdf(names[i]))
       IN  upLast' =
             IF unreadable
             THEN [NoUpLast EXCEPT !.op = "combine_documents", !.status = "error",
                     !.error = AllAboutDocumentsException("Exception")]
             ELSE [NoUpLast EXCEPT !.op = "combine_documents", !.status = "ok",
                     !.sections = [i \in 1 .. Len(names) |->
                                     [name |-> names[i],
                                      content |-> ReadDocumentText(pdf(names[i]).pages)]]]
    /\ UNCHANGED <<docVars, cmpVars, readLast, elsewhere, nonUpVars>>

\* The comparator of test_compare_documents: two uploads, the first with the
\* bytes of one document and the second with those of another.
CombineUploadStep ==
    \E n1, n2 \in {N_a_pdf, N_b_pdf},
       io \in {"none", "open1", "write1", "open2", "write2"} :
        SaveUploadedFiles([name |-> n1, bytes |-> "b1"], [name |-> n2, bytes |-> "b2"], io)
CombineNewStep ==
    \E g \in {"d1", "d2", "None"} : NewDocumentIngestion(g, "d3")
CombineDocumentsStep == CombineDocuments

CombineNext ==
    \/ CombineNewStep
    \/ CombineUploadStep
    \/ CombineDocumentsStep

--------------------------------------------------------------------------
(* data_retrieval.py under concurrent callers: _get_session_history        *)

Callers == {"t1", "t2"}
CallerInput(t) == IF t = "t1" THEN "q1" ELSE "q2"
NoObject == 0
NoCaller ==
    [pc |-> "idle", sid |-> NoSession, input |-> "none", obj |-> NoObject,
     status |-> "none", error |-> "none", calls |-> 0]

SessionInit ==
    /\ sessionStoreMade = FALSE
    /\ sessionStore = <<>>
    /\ historyObjects = <<>>
    /\ callers = [t \in Callers |-> NoCaller]

\* A creation that keeps the object another caller stored in between.
StoreHistoryIfAbsent(st, s, o) ==
    IF s \in DOMAIN st THEN st
    ELSE [x \in DOMAIN st \cup {s} |-> IF x = s THEN o ELSE st[x]]

\* line 128: st.session_state.store[session_id] = ChatMessageHistory()
StoreHistory(st, s, o) ==
    [x \in DOMAIN st \cup {s} |-> IF x = s THEN o ELSE st[x]]

\* invoke, line 185: the chain is entered for self.session_id.
CallInvoke(t, s) ==
    /\ callers[t].pc \in {"idle", "done"}
    /\ callers[t].calls < MaxTurns
    /\ callers' = [callers EXCEPT ![t] =
                     [NoCaller EXCEPT !.pc = "test_store", !.sid = s,
                                      !.input = CallerInput(t),
                                      !.calls = callers[t].calls + 1]]
    /\ UNCHANGED <<sessionStoreMade, sessionStore, historyObjects, nonSesVars>>

\* line 124: if "store" not in st.session_state
TestStore(t) ==
    /\ callers[t].pc = "test_store"
    /\ callers' = [callers EXCEPT ![t].pc =
                     IF sessionStoreMade THEN "test_id" ELSE "make_store"]
    /\ UNCHANGED <<sessionStoreMade, sessionStore, historyObjects, nonSesVars>>

\* line 125: st.session_state.store = {}
MakeStore(t) ==
    /\ callers[t].pc = "make_store"
    /\ sessionStoreMade' = TRUE
    /\ sessionStore' = <<>>
    /\ callers' = [callers EXCEPT ![t].pc = "test_id"]
    /\ UNCHANGED <<historyObjects, nonSesVars>>

\* line 127: if session_id not in st.session_state.store
TestId(t) ==
    /\ callers[t].pc = "test_id"
    /\ callers' = [callers EXCEPT ![t].pc =
                     IF callers[t].sid \in DOMAIN sessionStore THEN "return" ELSE "create"]
    /\ UNCHANGED <<sessionStoreMade, sessionStore, historyObjects, nonSesVars>>

\* line 128: a new ChatMessageHistory is made and stored under the id.
CreateHistory(t) ==
    /\ callers[t].pc = "create"
    /\ historyObjects' = Append(historyObjects, <<>>)
    /\ sessionStore' = StoreHistory(sessionStore, callers[t].sid, Len(historyObjects) + 1)
    /\ callers' = [callers EXCEPT ![t].pc = "return"]
    /\ UNCHANGED <<sessionStoreMade, nonSesVars>>

\* line 133: return st.session_state.store[session_id]; a KeyError (the
\* store was replaced in between) is wrapped at lines 135-139.
ReturnHistory(t) ==
    /\ callers[t].pc = "return"
    /\ callers' = [callers EXCEPT ![t] =
                     IF callers[t].sid \in DOMAIN sessionStore
                     THEN [@ EXCEPT !.pc = "run", !.obj = sessionStore[callers[t].sid]]
                     ELSE [@ EXCEPT !.pc = "done", !.status = "error",
                                    !.error = AllAboutDocumentsException("sys")]]
    /\ UNCHANGED <<sessionStoreMade, sessionStore, historyObjects, nonSesVars>>

\* The chain runs and RunnableWithMessageHistory adds the turn to the
\* history object it was given; a failed run adds nothing.
RunChain(t, failAt) ==
    /\ callers[t].pc = "run"
    /\ historyObjects' = [historyObjects EXCEPT ![callers[t].obj] =
                            HistoryAfter(@, callers[t].input, "a1", failAt)]
    /\ callers' = [callers EXCEPT ![t] =
                     IF failAt = "none"
                     THEN [@ EXCEPT !.pc = "done", !.status = "ok"]
                     ELSE [@ EXCEPT !.pc = "done", !.status = "error",
                                    !.error = AllAboutDocumentsException("sys")]]
    /\ UNCHANGED <<sessionStoreMade, sessionStore, nonSesVars>>

CallInvokeStep == \E t \in Callers, s \in SessionIds : CallInvoke(t, s)
TestStoreStep == \E t \in Callers : TestStore(t)
MakeStoreStep == \E t \in Callers : MakeStore(t)
TestIdStep == \E t \in Callers : TestId(t)
CreateHistoryStep == \E t \in Callers : CreateHistory(t)
ReturnHistoryStep == \E t \in Callers : ReturnHistory(t)
RunChainStep == \E t \in Callers, f \in {"none", "retrieve"} : RunChain(t, f)

SessionRaceNext ==
    \/ CallInvokeStep
    \/ TestStoreStep
    \/ MakeStoreStep
    \/ TestIdStep
    \/ CreateHistoryStep
    \/ ReturnHistoryStep
    \/ RunChainStep

--------------------------------------------------------------------------
(* data_ingestion.py under concurrent callers: ingest_files on one faiss_dir *)

NoIngCall == [pc |-> "idle", files |-> <<>>, documents |-> <<>>, chunks |-> <<>>,
              status |-> "none", error |-> "none"]
ReadableUploads == {u \in IngestUploads : SplitDocuments(PyPDFLoad(u.content).pages) # <<>>}

IngestRaceInit == ingCalls = [call |-> [t \in Callers |-> NoIngCall], returned |-> <<>>]
ConcurrentInit == SessionInit /\ IngestRaceInit /\ SplitInit

\* One write that puts both files of the index in place.
WriteIndexWhole(index, part, chunks) ==
    [faiss |-> Written(chunks), pkl |-> Written(chunks)]

\* save_local, line 137: faiss.write_index writes index.faiss, then
\* pickle.dump writes index.pkl; each is a write of its own.
WriteIndexFile(index, part, chunks) ==
    IF part = "faiss" THEN [index EXCEPT !.faiss = Written(chunks)]
    ELSE [index EXCEPT !.pkl = Written(chunks)]

\* ingest_files, lines 76-98: the files are written under unique names and
\* loaded.
BeginIngest(t, u) ==
    /\ ingCalls.call[t].pc \in {"idle", "done"}
    /\ Len(dataDir) < MaxDataFiles
    /\ dataDir' = SaveAndLoad(dataDir, <<>>, <<u>>, 1, NoFail).dir
    /\ ingCalls' = [ingCalls EXCEPT !.call[t] =
                      [NoIngCall EXCEPT !.pc = "embed", !.files = <<u>>,
                         !.documents = SaveAndLoad(dataDir, <<>>, <<u>>, 1, NoFail).documents]]
    /\ UNCHANGED <<faissIndex, ingLast, sesVars, splVars, ragVars, upVars, mlVars, chVars>>

\* _create_retriever, lines 122-134: split and embed, in memory.
EmbedChunks(t, fails) ==
    /\ ingCalls.call[t].pc = "embed"
    /\ ingCalls' = [ingCalls EXCEPT !.call[t] =
                      IF fails
                      THEN [@ EXCEPT !.pc = "done", !.status = "error",
                                     !.error = AllAboutDocumentsException("sys")]
                      ELSE [@ EXCEPT !.pc = "write_faiss",
                                     !.chunks = SplitDocuments(ingCalls.call[t].documents)]]
    /\ UNCHANGED <<dataDir, faissIndex, ingLast, sesVars, splVars, ragVars, upVars, mlVars, chVars>>

\* save_local, line 137, first file.
WriteFaiss(t) ==
    /\ ingCalls.call[t].pc = "write_faiss"
    /\ faissIndex' = WriteIndexFile(faissIndex, "faiss", ingCalls.call[t].chunks)
    /\ ingCalls' = [ingCalls EXCEPT !.call[t].pc = "write_pkl"]
    /\ UNCHANGED <<dataDir, ingLast, sesVars, splVars, ragVars, upVars, mlVars, chVars>>

\* save_local, line 137, second file.
WritePkl(t) ==
    /\ ingCalls.call[t].pc = "write_pkl"
    /\ faissIndex' = WriteIndexFile(faissIndex, "pkl", ingCalls.call[t].chunks)
    /\ ingCalls' = [ingCalls EXCEPT !.call[t].pc = "return"]
    /\ UNCHANGED <<dataDir, ingLast, sesVars, splVars, ragVars, upVars, mlVars, chVars>>

\* lines 143-150 and 104: the retriever over this call's chunks is returned.
ReturnRetriever(t) ==
    /\ ingCalls.call[t].pc = "return"
    /\ ingCalls' = [ingCalls EXCEPT !.call[t].pc = "done", !.call[t].status = "ok",
                                    !.returned = Append(@, t)]
    /\ UNCHANGED <<dataDir, faissIndex, ingLast, sesVars, splVars, ragVars, upVars, mlVars, chVars>>

BeginIngestStep == \E t \in Callers, u \in ReadableUploads : BeginIngest(t, u)
EmbedChunksStep == \E t \in Callers, fails \in BOOLEAN : EmbedChunks(t, fails)
WriteFaissStep == \E t \in Callers : WriteFaiss(t)
WritePklStep == \E t \in Callers : WritePkl(t)
ReturnRetrieverStep == \E t \in Callers : ReturnRetriever(t)

IngestRaceNext ==
    \/ BeginIngestStep
    \/ EmbedChunksStep
    \/ WriteFaissStep
    \/ WritePklStep
    \/ ReturnRetrieverStep

--------------------------------------------------------------------------
(* Claims about ConversationalRAG, checked under SpecRag and SpecCalls     *)

\* C1: after N successful invoke calls on a session its history holds exactly
\* those N turns, in call order (the input message then the answer message of
\* each), and no step changes, reorders or removes a message already recorded.
C1_HistoryIsCallLog ==
    [][\A s \in SessionIds :
          /\ Messages(s)' = TurnMessages(okLog'[s])
          /\ Len(Messages(s)') = 2 * Len(okLog'[s])
          /\ IsPrefix(Messages(s), Messages(s)')]_vars

C1_Witness ==
    /\ Len(okLog["s1"]) = 2
    /\ okLog["s1"][1].input # okLog["s1"][2].input
    /\ Len(Messages("s1")) = 4
    /\ ~ragCall.active

\* C2: an invoke in which the rewriting, the retrieval or the synthesis fails
\* ends in an error, returns no answer, and leaves the messages of the session
\* exactly as they were when the call started.
C2_FailedInvokeRecordsNothing ==
    (ragLast.op = "invoke" /\ ragLast.status = "error") =>
        /\ ragLast.error # "none"
        /\ ragLast.answer = "none"
        /\ Messages(ragLast.sid) = ragLast.before
        /\ Messages(ragLast.sid) = TurnMessages(okLog[ragLast.sid])

C2_Witness ==
    /\ ragLast.op = "invoke"
    /\ ragLast.status = "error"
    /\ ragLast.steps = <<"rewrite", "retrieve">>
    /\ Len(ragLast.before) = 2
    /\ ~ragCall.active

\* C3: a session enters the store with an empty history, only through a lookup
\* of an id that is absent; a lookup of a stored id returns the stored history
\* with its turns; every step keeps each stored session and only ever extends
\* its history, by one turn at most; the store itself is never dropped.
C3_SessionLifecycle ==
    [][/\ storeExists => storeExists'
       /\ \A s \in SessionIds :
            /\ (s \in DOMAIN store) =>
                  /\ s \in DOMAIN store'
                  /\ IsPrefix(store[s], store'[s])
                  /\ Len(store'[s]) \in {Len(store[s]), Len(store[s]) + 2}
            /\ (s \notin DOMAIN store /\ s \in DOMAIN store') =>
                  /\ store'[s] = <<>>
                  /\ ragCall'.active /\ ragCall'.sid = s]_vars

C3_Witness ==
    /\ ragCall.active
    /\ Len(ragCall.before) = 2
    /\ store[ragCall.sid] = ragCall.before
    /\ \E s \in SessionIds : s \notin DOMAIN store

\* C23: a successful invoke on a session with history runs, in this order,
\* one rewriter LLM call, one retrieval for the rewritten question and one
\* answer synthesis; on a session without history it makes no rewriter call
\* and retrieves for the user input as it is.  The turn is appended after
\* the synthesis: while the chain runs the history is as the call found it.
C23_InvokeStepOrder ==
    /\ (ragLast.op = "invoke" /\ ragLast.status = "ok") =>
          /\ ragLast.steps = IF ragLast.before = <<>>
                             THEN <<"retrieve", "synthesize">>
                             ELSE <<"rewrite", "retrieve", "synthesize">>
          /\ ragLast.query = [asked |-> TRUE, rewritten |-> ragLast.before # <<>>,
                              input |-> ragLast.input]
          /\ \A i \in 1 .. Len(ragLast.calls) :
                /\ ragLast.calls[i].kind = ragLast.steps[i]
                /\ ragLast.calls[i].output = "returned"
          /\ Messages(ragLast.sid) =
                ragLast.before \o <<Human(ragLast.input), AI(ragLast.answer)>>
    /\ ragCall.active => Messages(ragCall.sid) = ragCall.before

\* The second turn of a session succeeded.
C23_Witness ==
    /\ ragLast.op = "invoke"
    /\ ragLast.status = "ok"
    /\ Len(ragLast.before) = 2
    /\ ragLast.steps = <<"rewrite", "retrieve", "synthesize">>
    /\ ragLast.query.rewritten

\* C23 (as stated): every successful invoke makes one rewriter call, then one
\* retrieval for the rewritten question, then one synthesis, then the append.
C23_AsStated ==
    (ragLast.op = "invoke" /\ ragLast.status = "ok") =>
        /\ ragLast.steps = <<"rewrite", "retrieve", "synthesize">>
        /\ ragLast.query.rewritten
        /\ Messages(ragLast.sid) =
              ragLast.before \o <<Human(ragLast.input), AI(ragLast.answer)>>

--------------------------------------------------------------------------
(* Claims about the retention cleanup, checked under SpecRetention         *)

KeptNewest(before, after, bd) ==
    before # {} => \E d \in after : \A e \in before : bd[d].mtime >= bd[e].mtime

RetainedExactly(before, after, bd, n) ==
    /\ after \subseteq before
    /\ Cardinality(after) = Min(Cardinality(before), n)
    /\ \A k \in after, r \in before \ after : bd[k].mtime >= bd[r].mtime

\* C4 (as amended): for max_retained_logs >= 1, a delete_old_sessions call
\* that returns leaves exactly the max_retained_logs most recently modified
\* session folders (all of them when there are fewer) and removes every other
\* one; whether it returns or raises, a folder with the greatest modification
\* time is still there afterwards.
C4_RetentionKeepsNewest ==
    [][(upLast'.op = "delete_old_sessions" /\ upLast'.arg >= 1) =>
         LET before == SessionFolders(baseDir)
             after  == SessionFolders(baseDir')
         IN /\ after \subseteq before
            /\ KeptNewest(before, after, baseDir)
            /\ upLast'.status = "ok" =>
                 /\ RetainedExactly(before, after, baseDir, upLast'.arg)
                 /\ \A r \in before \ after : baseDir'[r] = Absent
                 /\ SeqRange(upLast'.path) = before \ after]_vars

C4_Witness ==
    /\ upLast.op = "delete_old_sessions"
    /\ upLast.status = "ok"
    /\ upLast.arg = 1
    /\ Len(upLast.path) = 2
    /\ Cardinality(SessionFolders(baseDir)) = 1

\* C4 (as stated): for every value of max_retained_logs, after the call exactly
\* that many most recently modified folders remain, every other one is removed,
\* and the most recently modified folder is never deleted.
C4_AsStated ==
    [][(upLast'.op = "delete_old_sessions" /\ upLast'.status = "ok") =>
         LET before == SessionFolders(baseDir)
             after  == SessionFolders(baseDir')
         IN /\ RetainedExactly(before, after, baseDir, upLast'.arg)
            /\ KeptNewest(before, after, baseDir)]_vars

\* C28: delete_old_sessions(k), k >= 0, changes only session folders after
\* the first k of the newest-first order: the k retained folders, with their
\* files, and the entries of base_dir that are not directories stay as they
\* are.  The folders beyond the limit are deleted in order; when a folder that
\* holds a sub-directory cannot be deleted the call raises, the folders
\* deleted before it are gone, that folder is still a directory and the
\* folders after it are untouched.
C28_DeleteTouchesOnlyBeyondLimit ==
    [][upLast'.op = "delete_old_sessions" =>
         \E q \in SortedByMtimeDesc(baseDir) :
           LET k       == Min(upLast'.arg, Len(q))
               beyond  == SubSeq(q, k + 1, Len(q))
               deleted == upLast'.path
               d       == Len(deleted)
           IN  /\ \A i \in 1 .. k : baseDir'[q[i]] = baseDir[q[i]]
               /\ \A e \in Entries \ SessionFolders(baseDir) :
                     baseDir'[e] = baseDir[e]
               /\ IsPrefix(deleted, beyond)
               /\ \A i \in 1 .. d : baseDir'[deleted[i]] = Absent
               /\ upLast'.status = "ok" <=> deleted = beyond
               /\ upLast'.status = "error" <=>
                     /\ d < Len(beyond)
                     /\ baseDir[beyond[d + 1]].sub
                     /\ baseDir'[beyond[d + 1]].kind = "dir"
                     /\ baseDir'[beyond[d + 1]].sub
                     /\ \A i \in d + 2 .. Len(beyond) :
                           baseDir'[beyond[i]] = baseDir[beyond[i]]]_vars

\* delete_old_sessions(0) over three folders raised at the second one: the
\* first is gone, two folders and the stray file are still there.
C28_Witness ==
    /\ upLast.op = "delete_old_sessions"
    /\ upLast.status = "error"
    /\ upLast.arg = 0
    /\ Len(upLast.path) = 1
    /\ Cardinality(SessionFolders(baseDir)) = 2
    /\ \E e \in SessionFolders(baseDir) : ~baseDir[e].sub
    /\ baseDir[Stray].kind = "file"

--------------------------------------------------------------------------
(* Claims about the upload handlers, checked under SpecUpload              *)

StorageUnchanged == docBase' = docBase /\ baseDir' = baseDir

\* C5 (as amended): save_pdf fails, before any write, for every name whose
\* lower-cased form does not end in ".pdf"; save_uploaded_files fails, before
\* writing either file, when either name does not end in the literal ".pdf";
\* the failed call leaves every stored file as it was.
C5_RejectedUploadWritesNothing ==
    [][/\ (upLast'.op = "save_pdf" /\ ~EndsWith(Lower(upLast'.n1), DotPdf)) =>
             upLast'.status = "error" /\ StorageUnchanged
       /\ (upLast'.op = "save_uploaded_files"
             /\ (~EndsWith(upLast'.n1, DotPdf) \/ ~EndsWith(upLast'.n2, DotPdf))) =>
             upLast'.status = "error" /\ StorageUnchanged]_vars

C5_Witness ==
    /\ upLast.op = "save_uploaded_files"
    /\ upLast.status = "error"
    /\ upLast.n1 = N_a_pdf
    /\ upLast.n2 = N_a_PDF
    /\ baseDir[ingestion].kind = "dir"
    /\ Present(baseDir[ingestion].files) = {N_b_pdf}

\* C5 (as stated): an upload whose name does not end in .pdf is written by
\* neither save_pdf nor save_uploaded_files.
C5_AsStated ==
    [][/\ (upLast'.op = "save_pdf" /\ ~EndsWith(upLast'.n1, DotPdf)) =>
             upLast'.status = "error" /\ StorageUnchanged
       /\ (upLast'.op = "save_uploaded_files"
             /\ (~EndsWith(upLast'.n1, DotPdf) \/ ~EndsWith(upLast'.n2, DotPdf))) =>
             upLast'.status = "error" /\ StorageUnchanged]_vars

\* C29: the two validators accept different names.  Whenever a handler
\* exists, save_pdf can save an upload exactly when the lower-cased name ends
\* in ".pdf": a.pdf, b.pdf and a.PDF, not a.txt, pdf or a.pdfx.  Whenever a
\* comparator session exists, save_uploaded_files can save a pair exactly
\* when both names end in the literal ".pdf": a pair with a.PDF is rejected.
C29_ValidatorsDiffer ==
    /\ handler # "none" =>
          \A n \in UploadNames :
             (ENABLED (/\ SavePdfCall([name |-> n, bytes |-> "b1"], "none")
                       /\ upLast'.status = "ok"
                       /\ docBase'[handler].files[n] = "b1"))
               <=> n \in {N_a_pdf, N_b_pdf, N_a_PDF}
    /\ (ingestion # "none" /\ baseDir[ingestion].kind = "dir") =>
          \A n1, n2 \in UploadNames :
             (ENABLED (/\ SaveUploadedFilesCall([name |-> n1, bytes |-> "b1"],
                                            [name |-> n2, bytes |-> "b2"], "none")
                       /\ upLast'.status = "ok"
                       /\ baseDir'[ingestion].files[n2] = "b2"))
               <=> (n1 \in {N_a_pdf, N_b_pdf} /\ n2 \in {N_a_pdf, N_b_pdf})

\* save_pdf has saved a.PDF while a comparator session exists, whose
\* save_uploaded_files rejects that name.
C29_Witness ==
    /\ upLast.op = "save_pdf"
    /\ upLast.status = "ok"
    /\ upLast.n1 = N_a_PDF
    /\ docBase[handler].files[N_a_PDF] \in Bytes
    /\ ingestion # "none"
    /\ baseDir[ingestion].kind = "dir"

\* C24: a session identifier is the one supplied or a generated one.  A
\* constructor given a non-empty id uses exactly that id, and generating
\* from an id in use returns it again; given None or the empty string it
\* uses a generated id, one that names no directory yet.
C24_SessionIdSuppliedOrGenerated ==
    [][(upLast'.op \in {"new_handler", "new_ingestion"} /\ upLast'.status = "ok") =>
         LET g == upLast'.given
             ofHandler == upLast'.op = "new_handler"
             sid == IF ofHandler THEN handler' ELSE ingestion'
             isNew == IF ofHandler THEN ~docBase[sid].exists
                      ELSE baseDir[sid].kind = "absent"
         IN  /\ upLast'.path = <<sid>>
             /\ g \notin {"None", ""} => sid = g
             /\ g \in {"None", ""} => sid \notin {"None", "", "none"} /\ isNew
             /\ \A fr \in DocSessions \cup CmpSessions : GenerateSessionId(sid, fr) = sid]_vars

\* A handler was made for a supplied id whose directory existed already, and
\* an ingestion for a generated one.
C24_Witness ==
    /\ upLast.op = "new_ingestion"
    /\ upLast.status = "ok"
    /\ upLast.given = ""
    /\ ingestion \in CmpSessions
    /\ handler \in DocSessions

\* C6 (as stated): every error a wrapping handler catches reaches the caller
\* as an AllAboutDocumentsException; here for the two upload handlers, whose
\* failed calls must all end in that exception type.
C6_AsStated ==
    (upLast.op \in {"save_pdf", "save_uploaded_files"} /\ upLast.status = "error") =>
        upLast.error = "AllAboutDocumentsException"

--------------------------------------------------------------------------
(* Claims about the model loader, checked under SpecLoader                 *)

\* The environment os.getenv reads once load_dotenv has run.
EffectiveEnviron == LoadDotenv(environ, dotenvFile)
KeyMissingOrEmpty == \E k \in ApiKeys : EffectiveEnviron[k] \in {Unset, ""}

\* C7: when GOOGLE_API_KEY or GROQ_API_KEY is missing or empty, whatever
\* LLM_PROVIDER is, every ModelLoader construction fails right after the
\* validation - config.yaml is not loaded - and no loader exists, so no LLM
\* or embedding client is ever constructed.
C7_MissingKeyFailsConstruction ==
    KeyMissingOrEmpty =>
        /\ ~loader.exists
        /\ clients = <<>>
        /\ mlLast.op \in {"none", "init"}
        /\ mlLast.op = "init" =>
             /\ mlLast.status = "error"
             /\ mlLast.events = <<"load_dotenv", "validate">>

C7_Witness ==
    /\ mlLast.op = "init"
    /\ mlLast.status = "error"
    /\ environ["GOOGLE_API_KEY"] = "key"
    /\ environ["GROQ_API_KEY"] = ""
    /\ environ["LLM_PROVIDER"] = "google"
    /\ configYaml.readable

--------------------------------------------------------------------------
(* Claims about the two chains, checked under SpecChains                   *)

Repairs(calls) == Len(SelectSeq(calls, LAMBDA c : c.kind = "repair"))
FirstAnswerMalformed(calls) ==
    Len(calls) >= 1 /\ calls[1].output # "raised" /\ ~IsJson(calls[1].output)

\* C8 (as stated): a finished analyze_document call whose first LLM answer
\* did not parse made exactly one repair call, with the malformed answer as
\* its input, and no call made two; it returned the repaired value when that
\* parsed; and it failed with the wrapped AllAboutDocumentsException when the
\* repaired answer did not parse either or when an LLM call raised.
C8_AsStated ==
    (chain.op = "analyze_document" /\ chain.pc = "done") =>
        LET calls == chain.llmCalls
            last == calls[Len(calls)]
        IN  /\ Repairs(calls) = (IF FirstAnswerMalformed(calls) THEN 1 ELSE 0)
            /\ Len(calls) = 1 + Repairs(calls)
            /\ Repairs(calls) = 1 => calls[2].input = calls[1].output
            /\ IsJson(last.output) =>
                 chain.status = "ok" /\ chain.value = ParseJson(last.output)
            /\ ~IsJson(last.output) =>
                 chain.status = "error" /\ chain.error = "AllAboutDocumentsException"

\* C9 (as amended): compare_documents makes exactly one LLM call and never a
\* repair call; when that answer is not parseable the call fails at once,
\* and it returns a table only for an answer that parsed.
C9_ComparatorNeverRepairs ==
    chain.op = "compare_documents" =>
        /\ Repairs(chain.llmCalls) = 0
        /\ Len(chain.llmCalls) <= 1
        /\ chain.pc = "done" =>
             /\ Len(chain.llmCalls) = 1
             /\ FirstAnswerMalformed(chain.llmCalls) => chain.status = "error"
             /\ chain.status = "ok" => IsJson(chain.llmCalls[1].output)

C9_Witness ==
    /\ chain.op = "compare_documents"
    /\ chain.pc = "done"
    /\ chain.status = "error"
    /\ FirstAnswerMalformed(chain.llmCalls)

\* C9 (as stated): when the answer to compare_documents is not parseable,
\* one repair call is made before the call ends.
C9_AsStated ==
    (chain.op = "compare_documents" /\ chain.pc = "done"
        /\ FirstAnswerMalformed(chain.llmCalls)) =>
        Repairs(chain.llmCalls) = 1

AllNoChange(table) == \A i \in 1 .. Len(table) : table[i].Changes = "No Change"

\* C22: compare_documents returns the page records the LLM answered, as they
\* are: every Changes value of the result is "No Change" exactly when the
\* LLM's answer said so - for two identical documents as for any others.
C22_ComparatorReturnsLlmRecords ==
    (chain.op = "compare_documents" /\ chain.pc = "done" /\ chain.status = "ok") =>
        /\ Len(chain.llmCalls) = 1
        /\ chain.llmCalls[1].input = chain.text
        /\ chain.table # <<>>
        /\ AllNoChange(chain.table) <=> chain.llmCalls[1].output = "json_records"

\* Two identical documents were compared and every page says "No Change".
C22_Witness ==
    /\ chain.op = "compare_documents"
    /\ chain.pc = "done"
    /\ chain.status = "ok"
    /\ chain.text = "same_twice"
    /\ AllNoChange(chain.table)

\* C22 (as stated): the result for two identical documents says "No Change"
\* on every page.
C22_AsStated ==
    (chain.op = "compare_documents" /\ chain.pc = "done" /\ chain.status = "ok"
        /\ chain.text = "same_twice") =>
        AllNoChange(chain.table)

--------------------------------------------------------------------------
(* Claims about the ingestor, checked under SpecIngest                     *)

\* The files of a failed call that were written in full before it failed.
WrittenBeforeFailure(last) ==
    CASE last.stage = "save" -> last.idx - 1
      [] last.stage = "load" -> last.idx
      [] OTHER               -> Len(last.files)

\* C10: an ingest_files call with a file that cannot be loaded fails; a call
\* that fails while saving, loading or embedding returns no retriever,
\* leaves the two files of the persisted index as they were, and leaves in
\* data_dir, after the files that were there, every file it had written.
C10_FailedIngestKeepsFilesAndIndex ==
    [][ingLast'.op = "ingest_files" =>
        /\ (\E i \in 1 .. Len(ingLast'.files) : ~PyPDFLoad(ingLast'.files[i].content).ok)
              => ingLast'.status = "error"
        /\ (ingLast'.status = "error" /\ ingLast'.stage \in {"save", "load", "embed"}) =>
              /\ ~ingLast'.retriever.made
              /\ faissIndex' = faissIndex
              /\ IsPrefix(dataDir, dataDir')
              /\ Len(dataDir') >= Len(dataDir) + WrittenBeforeFailure(ingLast')
              /\ \A j \in 1 .. WrittenBeforeFailure(ingLast') :
                    dataDir'[Len(dataDir) + j] =
                        [suffix |-> Suffix(ingLast'.files[j].name),
                         content |-> ingLast'.files[j].content]]_vars

C10_Witness ==
    /\ ingLast.op = "ingest_files"
    /\ ingLast.status = "error"
    /\ ingLast.stage = "load"
    /\ ingLast.idx = 2
    /\ Len(dataDir) = 3
    /\ faissIndex.faiss.state = "written"
    /\ faissIndex.pkl = faissIndex.faiss

\* The chunks of the files of one call, in upload order.
RECURSIVE ChunksOfFiles(_)
ChunksOfFiles(files) ==
    IF files = <<>> THEN <<>>
    ELSE SplitDocuments(PyPDFLoad(Head(files).content).pages) \o ChunksOfFiles(Tail(files))

\* C11: after every successful ingest_files call both files of the index
\* persisted at faiss_dir hold exactly the chunks of the files of that call,
\* whatever was persisted there before, and the retriever returned is over
\* those chunks.
C11_IndexIsRebuiltPerCall ==
    [][(ingLast'.op = "ingest_files" /\ ingLast'.status = "ok") =>
          /\ faissIndex'.faiss = Written(ChunksOfFiles(ingLast'.files))
          /\ faissIndex'.pkl = Written(ChunksOfFiles(ingLast'.files))
          /\ ingLast'.retriever = [made |-> TRUE, chunks |-> ChunksOfFiles(ingLast'.files)]]_vars

C11_Witness ==
    /\ ingLast.op = "ingest_files"
    /\ ingLast.status = "ok"
    /\ ingLast.prior.faiss = Written(<<"A">>)
    /\ ingLast.prior.pkl = Written(<<"A">>)
    /\ faissIndex.faiss = Written(<<"B">>)
    /\ faissIndex.pkl = Written(<<"B">>)

\* C17 (as stated): an ingest_files call with a file whose extension is not
\* .pdf fails, writes no file with such an extension to data_dir, and
\* leaves the persisted index as it was.
C17_AsStated ==
    [][(ingLast'.op = "ingest_files"
          /\ \E i \in 1 .. Len(ingLast'.files) : Suffix(ingLast'.files[i].name) # DotPdf) =>
          /\ ingLast'.status = "error"
          /\ faissIndex' = faissIndex
          /\ \A j \in Len(dataDir) + 1 .. Len(dataDir') : dataDir'[j].suffix = DotPdf]_vars

--------------------------------------------------------------------------
(* Claims about combine_documents, checked under SpecCombine               *)

\* C26: save_uploaded_files writes the first document and then the second
\* into the session directory, each under its own name.  When the two names
\* are equal the second write replaces the first: both returned paths are
\* the same, the file holds the second document's bytes, a directory that
\* was empty holds that one file, and the combine_documents that follows
\* returns a single section, of the second document.
C26_SameNameSecondOverwrites ==
    [][/\ (upLast'.op = "save_uploaded_files" /\ upLast'.status = "ok"
            /\ upLast'.n1 = upLast'.n2) =>
             LET n == upLast'.n1
                 files == baseDir[ingestion].files
             IN  /\ upLast'.path = <<ingestion, n, ingestion, n>>
                 /\ baseDir'[ingestion].files = [files EXCEPT ![n] = "b2"]
                 /\ Present(files) = {} => Present(baseDir'[ingestion].files) = {n}
       /\ (upLast'.op = "combine_documents"
            /\ upLast.op = "save_uploaded_files" /\ upLast.status = "ok"
            /\ upLast.n1 = upLast.n2
            /\ Present(baseDir[ingestion].files) = {upLast.n1}) =>
             /\ upLast'.status = "ok"
             /\ upLast'.sections =
                   <<[name |-> upLast.n1,
                      content |-> ReadDocumentText(<<"text", "text">>)]>>]_vars

\* Both uploads were named a.pdf, and combine_documents returned one section.
C26_Witness ==
    /\ upLast.op = "combine_documents"
    /\ upLast.status = "ok"
    /\ Len(upLast.sections) = 1
    /\ ingestion # "none"
    /\ baseDir[ingestion].files = [EmptyFiles EXCEPT ![N_a_pdf] = "b2"]

\* C27: combine_documents returns one labelled section for every .pdf file
\* of the session directory, in ascending order of the file names, whichever
\* upload was the first and whichever call wrote the file; it fails when one
\* of the files cannot be read.
C27_CombineCoversDirectory ==
    [][upLast'.op = "combine_documents" =>
         LET files == baseDir[ingestion].files
             pdfs == {n \in FileNames : files[n] # NoFile /\ EndsWith(n, DotPdf)}
             sections == upLast'.sections
         IN  IF \E n \in pdfs : files[n] \notin Bytes
             THEN upLast'.status = "error" /\ sections = <<>>
             ELSE /\ upLast'.status = "ok"
                  /\ {sections[i].name : i \in 1 .. Len(sections)} = pdfs
                  /\ \A i, j \in 1 .. Len(sections) :
                        i < j => NameLess(sections[i].name, sections[j].name)
                  /\ \A i \in 1 .. Len(sections) :
                        sections[i].content =
                          ReadDocumentText(PdfOf(files[sections[i].name]).pages)]_vars

\* The first upload was b.pdf and the second a.pdf: the section of a.pdf,
\* the second document, comes first.
C27_Witness ==
    /\ upLast.op = "combine_documents"
    /\ upLast.status = "ok"
    /\ Len(upLast.sections) = 2
    /\ upLast.sections[1].name = N_a_pdf
    /\ upLast.sections[2].name = N_b_pdf
    /\ baseDir[ingestion].files[N_a_pdf] = "b2"
    /\ baseDir[ingestion].files[N_b_pdf] = "b1"

--------------------------------------------------------------------------
(* Claims about the text splitter, checked under SpecSplit                 *)

ChunkLength(lens, c) == SumLengths(lens, c.from, c.to)

\* What two adjacent chunks share: the pieces at the end of the first that
\* the second starts with.
SharedLength(lens, c1, c2) == SumLengths(lens, c2.from, c1.to)

\* The chunks are ranges of pieces in order that leave no piece out.
ChunksCoverText ==
    LET lens == splitLast.lens
        chunks == splitLast.chunks
    IN  /\ (lens = <<>>) <=> (chunks = <<>>)
        /\ chunks # <<>> => chunks[1].from = 1 /\ chunks[Len(chunks)].to = Len(lens)
        /\ \A i \in 1 .. Len(chunks) - 1 :
              /\ chunks[i].from <= chunks[i + 1].from
              /\ chunks[i + 1].from <= chunks[i].to + 1
              /\ chunks[i].to < chunks[i + 1].to

\* C21: every chunk the splitter of ingestion makes is at most chunk_size
\* (1000) long, and two adjacent chunks share at most chunk_overlap (300):
\* the overlap is made of whole pieces and can be empty.
C21_ChunksBounded ==
    LET lens == splitLast.lens
        chunks == splitLast.chunks
    IN  /\ \A i \in 1 .. Len(chunks) : ChunkLength(lens, chunks[i]) <= ChunkSize
        /\ \A i \in 1 .. Len(chunks) - 1 :
              SharedLength(lens, chunks[i], chunks[i + 1]) <= ChunkOverlap
        /\ ChunksCoverText

\* A text split into two chunks that share a piece of 300.
C21_Witness ==
    /\ splitLast.done
    /\ Len(splitLast.chunks) = 2
    /\ ChunkLength(splitLast.lens, splitLast.chunks[1]) = ChunkSize
    /\ SharedLength(splitLast.lens, splitLast.chunks[1], splitLast.chunks[2]) = ChunkOverlap

\* C21 (as stated): every chunk is at most 1000 long and every two adjacent
\* chunks share at least 300.
C21_AsStated ==
    LET lens == splitLast.lens
        chunks == splitLast.chunks
    IN  /\ \A i \in 1 .. Len(chunks) : ChunkLength(lens, chunks[i]) <= ChunkSize
        /\ \A i \in 1 .. Len(chunks) - 1 :
              SharedLength(lens, chunks[i], chunks[i + 1]) >= ChunkOverlap

--------------------------------------------------------------------------
(* Claims about where uploads are written, checked under SpecPaths         *)

HasSlash(name) == \E i \in 1 .. Len(name) : name[i] = "/"

\* save_pdf returned a path directly in the handler's session directory.
SavePdfDirectChild ==
    (upLast.op = "save_pdf" /\ upLast.status = "ok") =>
        /\ upLast.path[1] = handler
        /\ ~HasSlash(upLast.path[2])

\* Every file of data_dir has a name with no directory in it.
IngestDirectChild == \A i \in 1 .. Len(dataDir) : ~HasSlash(dataDir[i].suffix)

\* C18 (as stated): for every upload name, the path written by save_pdf, by
\* save_uploaded_files and by ingest_files is a direct child of the session
\* directory of the instance, never a path outside it.
C18_AsStated ==
    /\ SavePdfDirectChild
    /\ IngestDirectChild
    /\ elsewhere = {}

--------------------------------------------------------------------------
(* Claims about the upstream calls of one operation, checked under SpecCalls *)

\* Nothing is called after a call that raised, and no call is made twice.
NoReissue(calls) ==
    /\ \A i \in 1 .. Len(calls) : calls[i].output = "raised" => i = Len(calls)
    /\ \A i, j \in 1 .. Len(calls) : i # j => calls[i].kind # calls[j].kind

SomeRaised(calls) == \E i \in 1 .. Len(calls) : calls[i].output = "raised"

\* The calls of a log that invoke the LLM with a prompt of the operation.
LlmInvocations(calls) ==
    Len(SelectSeq(calls, LAMBDA c : c.kind \in {"rewrite", "synthesize", "prompt"}))

\* A repair call follows a prompt whose completion was not JSON, in
\* analyze_document only.
RepairOnlyAfterMalformed ==
    \A i \in 1 .. Len(chain.llmCalls) :
        chain.llmCalls[i].kind = "repair" =>
            /\ chain.op = "analyze_document"
            /\ i = 2
            /\ chain.llmCalls[1].kind = "prompt"
            /\ ~IsJson(chain.llmCalls[1].output)

\* C20: no operation issues again a call that failed.  Within one
\* ingest_files, invoke, analyze_document or compare_documents call every
\* upstream call - the embedding, the question rewrite, the retrieval, the
\* answer synthesis, the prompt, the repair - is made at most once, nothing
\* is called after a call that raised, and the operation then fails; the
\* repair call of analyze_document is the only call that asks the LLM again
\* about an output it already gave.
C20_NoCallIsReissued ==
    /\ NoReissue(ingLast.calls)
    /\ NoReissue(ragLast.calls)
    /\ NoReissue(chain.llmCalls)
    /\ SomeRaised(ingLast.calls) => ingLast.status = "error"
    /\ SomeRaised(ragLast.calls) => ragLast.status = "error"
    /\ SomeRaised(chain.llmCalls) => chain.status = "error"
    /\ RepairOnlyAfterMalformed

\* Each of the three kinds of operation failed at an upstream call: the
\* embedding request, the answer synthesis of a turn with history, and the
\* repair call of analyze_document.
C20_Witness ==
    /\ ingLast.status = "error"
    /\ ingLast.calls = <<[kind |-> "embed", input |-> <<"A">>, output |-> "raised"]>>
    /\ ragLast.status = "error"
    /\ Len(ragLast.calls) = 3
    /\ ragLast.calls[3] = [kind |-> "synthesize", output |-> "raised"]
    /\ chain.status = "error"
    /\ Len(chain.llmCalls) = 2
    /\ chain.llmCalls[2].kind = "repair"
    /\ chain.llmCalls[2].output = "raised"

\* C20 (as stated): as above, and the only second LLM invocation within one
\* call is the repair step.
C20_AsStated ==
    /\ C20_NoCallIsReissued
    /\ LlmInvocations(ingLast.calls) <= 1
    /\ LlmInvocations(ragLast.calls) <= 1
    /\ LlmInvocations(chain.llmCalls) <= 1

--------------------------------------------------------------------------
(* Claims about the two readers, checked under SpecRead                    *)

\* The pages whose markers a text carries, in the order they appear.
RECURSIVE MarkerPages(_)
MarkerPages(text) ==
    IF text = <<>> THEN <<>>
    ELSE (IF Head(text).kind = "marker" THEN <<Head(text).page>> ELSE <<>>)
         \o MarkerPages(Tail(text))
RECURSIVE PagesWithText(_, _)
PagesWithText(pages, i) ==
    IF i > Len(pages) THEN <<>>
    ELSE (IF pages[i] \in {"", " "} THEN <<>> ELSE <<i>>) \o PagesWithText(pages, i + 1)
ValidRead == readLast.op # "none" /\ readLast.file.valid /\ ~readLast.file.encrypted

\* C16 (as amended): for every valid PDF with pages 1..n, read_pdf returns a
\* non-empty text with a marker for each page 1..n in page order, whatever
\* the pages hold; read_document returns markers for exactly the pages whose
\* text is not empty or white space, in page order, and the empty text when
\* there is no such page.
C16_ReadersMarkPages ==
    ValidRead =>
        /\ readLast.status = "ok"
        /\ readLast.op = "read_pdf" =>
              /\ readLast.text # <<>>
              /\ MarkerPages(readLast.text) = [i \in 1 .. Len(readLast.file.pages) |-> i]
        /\ readLast.op = "read_document" =>
              /\ MarkerPages(readLast.text) = PagesWithText(readLast.file.pages, 1)
              /\ (readLast.text = <<>>) = (PagesWithText(readLast.file.pages, 1) = <<>>)

C16_Witness ==
    /\ readLast.op = "read_document"
    /\ readLast.status = "ok"
    /\ readLast.file.pages = <<"text", " ", "text">>
    /\ MarkerPages(readLast.text) = <<1, 3>>

\* C25: reading an encrypted PDF fails: read_document and read_pdf both end
\* in an error for an encrypted document and return no text for it.
C25_EncryptedPdfIsRejected ==
    (readLast.op \in {"read_pdf", "read_document"} /\ readLast.file.encrypted) =>
        /\ readLast.status = "error"
        /\ readLast.error # "none"
        /\ readLast.text = <<>>

\* read_pdf was given an encrypted PDF whose pages have text.
C25_Witness ==
    /\ readLast.op = "read_pdf"
    /\ readLast.file.valid
    /\ readLast.file.encrypted
    /\ readLast.file.pages = <<"text">>
    /\ readLast.status = "error"

\* C16 (as stated): both readers return, for every valid PDF, a non-empty
\* text with a marker for each page 1..n in page order.
C16_AsStated ==
    ValidRead =>
        /\ readLast.status = "ok"
        /\ readLast.text # <<>>
        /\ MarkerPages(readLast.text) = [i \in 1 .. Len(readLast.file.pages) |-> i]

--------------------------------------------------------------------------
(* Claims about chat and ingestion together, checked under SpecChat        *)

\* The session an invoke step works on (the step starts or ends a call).
InvokeStepSession == IF ragCall'.active THEN ragCall'.sid ELSE ragCall.sid
OtherHistoriesUnchanged(sid) ==
    /\ DOMAIN store' \ {sid} = DOMAIN store \ {sid}
    /\ \A s \in DOMAIN store \ {sid} : store'[s] = store[s]

\* C12: a step of an invoke on session s changes no history but that of s
\* and leaves the persisted index and data_dir as they were; an ingest_files
\* call changes neither the store nor any session's history.
C12_HistoryAndIndexIndependent ==
    [][/\ ragCall' # ragCall =>
             /\ OtherHistoriesUnchanged(InvokeStepSession)
             /\ faissIndex' = faissIndex
             /\ dataDir' = dataDir
       /\ (faissIndex' # faissIndex \/ dataDir' # dataDir \/ ingLast' # ingLast) =>
             /\ store' = store
             /\ storeExists' = storeExists]_vars

C12_Witness ==
    /\ ragLast.op = "invoke"
    /\ ragLast.sid = "s2"
    /\ ragLast.status = "ok"
    /\ Messages("s1") = <<Human("q1"), AI("a1")>>
    /\ Messages("s2") = <<Human("q1"), AI("a1")>>
    /\ faissIndex.faiss = Written(<<"B">>)
    /\ ingLast.status = "ok"

--------------------------------------------------------------------------
(* Claims about instances that share a session id, checked under SpecChat  *)

\* C30: an invoke of an instance reads and appends the history stored under
\* the session id the instance was constructed with, and changes no other
\* key.  Constructing an instance leaves the store as it is, also when its
\* session id has a history already.  What an invoke finds is every turn
\* appended under that id so far, by whichever instance.
C30_InstancesShareSessionHistory ==
    [][/\ (~ragCall.active /\ ragCall'.active) =>
             LET sid == ragCall'.sid IN
             /\ sid = rag[ragCall'.inst]
             /\ sid \in SessionIds
             /\ OtherHistoriesUnchanged(sid)
             /\ store'[sid] = Messages(sid)
             /\ ragCall'.before = Messages(sid)
             /\ ragCall'.before = TurnMessages(okLog[sid])
       /\ (ragCall.active /\ ~ragCall'.active) =>
             LET sid == ragCall.sid IN
             /\ sid = rag[ragCall.inst]
             /\ ragLast'.sid = sid
             /\ OtherHistoriesUnchanged(sid)
             /\ store'[sid] =
                   IF ragLast'.status = "ok"
                   THEN ragCall.before \o <<Human(ragCall.input), AI(ragLast'.chainAnswer)>>
                   ELSE ragCall.before
       /\ (ragLast'.op = "init" /\ ragCall' = ragCall) =>
             store' = store /\ storeExists' = storeExists]_vars

\* Instances r1 and r2 have session s1; r1 has answered one question, and
\* the invoke of r2 that began after it found that turn.
C30_Witness ==
    /\ rag["r1"] = "s1"
    /\ rag["r2"] = "s1"
    /\ ragLast.op = "invoke"
    /\ ragLast.inst = "r1"
    /\ ragLast.status = "ok"
    /\ ragCall.active
    /\ ragCall.inst = "r2"
    /\ ragCall.sid = "s1"
    /\ ragCall.before = <<Human(ragLast.input), AI(ragLast.chainAnswer)>>

--------------------------------------------------------------------------
(* Claims about concurrent callers, checked under SpecSessionRace          *)

\* C13: nothing guards the session-history map.  A caller that found the id
\* absent stores a new, empty history object under it whatever another
\* caller has stored there since the test, and a turn is added to the object
\* the caller was given and to no other, so a caller holding an object the
\* store no longer keeps adds its turn where no later lookup finds it.
C13_UnguardedHistoryCreation ==
    [][\A t \in Callers :
         /\ (callers[t].pc = "create" /\ callers'[t].pc = "return") =>
               /\ Len(historyObjects') = Len(historyObjects) + 1
               /\ historyObjects'[Len(historyObjects')] = <<>>
               /\ sessionStore'[callers[t].sid] = Len(historyObjects')
         /\ (callers[t].pc = "run" /\ callers'[t].pc = "done"
                /\ callers'[t].status = "ok") =>
               /\ historyObjects'[callers[t].obj] =
                     AddMessages(historyObjects[callers[t].obj], callers[t].input, "a1")
               /\ \A o \in DOMAIN historyObjects \ {callers[t].obj} :
                     historyObjects'[o] = historyObjects[o]]_vars

\* Both callers invoked on s1 and succeeded, they hold different history
\* objects, the store keeps the one of t2, and the turn of t1 is not in it.
C13_Witness ==
    /\ \A t \in Callers :
         callers[t].pc = "done" /\ callers[t].status = "ok" /\ callers[t].sid = "s1"
    /\ callers["t1"].obj # callers["t2"].obj
    /\ "s1" \in DOMAIN sessionStore
    /\ sessionStore["s1"] = callers["t2"].obj
    /\ historyObjects[callers["t1"].obj] = <<Human("q1"), AI("a1")>>
    /\ historyObjects[sessionStore["s1"]] = <<Human("q2"), AI("a1")>>

\* C14: nothing serialises two ingest_files calls on one faiss_dir.  Each
\* call writes index.faiss and index.pkl one after the other, each write
\* replacing that one file with the chunks of the writing call and leaving
\* the other file as whichever call wrote it last, and a call returns the
\* retriever over its own chunks whatever the directory then holds.
C14_ConcurrentIngestRaces ==
    [][\A t \in Callers :
         LET c == ingCalls.call[t] IN
         /\ (c.pc = "write_faiss" /\ ingCalls'.call[t].pc = "write_pkl") =>
               /\ faissIndex'.faiss = Written(c.chunks)
               /\ faissIndex'.pkl = faissIndex.pkl
         /\ (c.pc = "write_pkl" /\ ingCalls'.call[t].pc = "return") =>
               /\ faissIndex'.pkl = Written(c.chunks)
               /\ faissIndex'.faiss = faissIndex.faiss
         /\ (c.pc = "return" /\ ingCalls'.call[t].pc = "done") =>
               /\ faissIndex' = faissIndex
               /\ ingCalls'.call[t].chunks = ChunksOfFiles(c.files)
               /\ ingCalls'.returned = Append(ingCalls.returned, t)]_vars

\* Both calls returned a retriever, t2 last; index.faiss is the one of t2
\* and index.pkl the one of t1, so the directory holds the index of neither.
C14_Witness ==
    /\ \A t \in Callers : ingCalls.call[t].pc = "done" /\ ingCalls.call[t].status = "ok"
    /\ ingCalls.returned = <<"t1", "t2">>
    /\ ingCalls.call["t1"].chunks = <<"A">>
    /\ ingCalls.call["t2"].chunks = <<"B">>
    /\ faissIndex.faiss = Written(<<"B">>)
    /\ faissIndex.pkl = Written(<<"A">>)

--------------------------------------------------------------------------
(* Specifications                                                          *)

CmpInit ==
    /\ baseDir = [e \in Entries |-> Absent]
    /\ ingestion = "none"
    /\ clock = MaxInitTime
    /\ upLast = NoUpLast
    /\ elsewhere = {}

\* Any base_dir a run can find: session folders left by earlier runs, with
\* their modification times, files and sub-directories, and a stray file.
FoundDirs ==
    {Absent} \cup
    {[kind |-> "dir", mtime |-> t, files |-> f, sub |-> b] :
        t \in 1..MaxInitTime,
        f \in {EmptyFiles, [EmptyFiles EXCEPT ![N_a_pdf] = "b1"]},
        b \in BOOLEAN}

\* A DocumentIngestion constructed over such a base_dir: its own session
\* folder is one of the folders there.
RetentionInit ==
    /\ baseDir \in [Entries -> FoundDirs \cup {[Absent EXCEPT !.kind = "file"]}]
    /\ \A d \in CmpSessions : baseDir[d] \in FoundDirs
    /\ baseDir[Stray].kind # "dir"
    /\ ingestion \in SessionFolders(baseDir)
    /\ clock = MaxInitTime + 1
    /\ upLast = NoUpLast
    /\ elsewhere = {}

NewHandlerStep ==
    \E g \in DocSessions \cup {"None", ""}, fr \in DocSessions :
        NewDocumentHandler(g, fr)
SavePdfStep ==
    \E f \in Uploads, io \in {"none", "open", "write"} : SavePdf(f, io)
NewIngestionStep ==
    \E g \in Entries \cup {"None", ""}, fr \in Entries :
        /\ fr \in CmpSessions
        /\ NewDocumentIngestion(g, fr)
SaveUploadedStep ==
    \E f1, f2 \in Uploads, io \in {"none", "open1", "write1", "open2", "write2"} :
        SaveUploadedFiles(f1, f2, io)
DeleteOldStep ==
    \E k \in RetainedValues : DeleteOldSessions(k)
SavePdfPathStep ==
    \E f \in PathUploads, io \in {"none", "open", "write"} : SavePdf(f, io)
SaveUploadedPathStep ==
    \E f1, f2 \in PathUploads, io \in {"none", "open1", "write1", "open2", "write2"} :
        SaveUploadedFiles(f1, f2, io)
PathsNext ==
    \/ NewHandlerStep
    \/ SavePdfPathStep
    \/ NewIngestionStep
    \/ SaveUploadedPathStep
    \/ IngestPathStep

UploadNext ==
    \/ NewHandlerStep
    \/ SavePdfStep
    \/ NewIngestionStep
    \/ SaveUploadedStep

\* A later request constructs a DocumentIngestion for a session id it names.
RetentionNewStep ==
    \E g \in CmpSessions : NewDocumentIngestion(g, g)
RetentionNext ==
    \/ RetentionNewStep
    \/ DeleteOldStep

\* One deployment: both keys in the environment, the shipped config.yaml.
FixedLoader ==
    /\ LoaderInit
    /\ \A k \in ApiKeys : environ[k] = "key"
    /\ environ["LLM_PROVIDER"] = Unset
    /\ dotenvFile = [n \in EnvNames |-> Unset]
    /\ configYaml = [readable |-> TRUE, embedding |-> TRUE,
                     LLMs |-> [b \in {"google", "groq"} |-> b]]
FixedInit ==
    /\ RagInit /\ DocInit /\ CmpInit /\ ReadInit /\ FixedLoader /\ ChainInit /\ IngestInit
    /\ ConcurrentInit

Init ==
    /\ RagInit /\ DocInit /\ CmpInit /\ ReadInit /\ LoaderInit /\ ChainInit /\ IngestInit
    /\ ConcurrentInit

Next ==
    \/ RagNext
    \/ UploadNext
    \/ DeleteOldStep
    \/ LoaderNext
    \/ ChainNext
    \/ IngestNext

Spec == Init /\ [][Next]_vars

\* The conversational RAG alone.
SpecRag == FixedInit /\ [][RagNext]_vars

\* The two upload handlers, from an empty storage.
SpecUpload == FixedInit /\ [][UploadNext]_vars

\* Uploads of every name to both handlers, with no I/O failure.
ValidateHandlerStep ==
    \E g \in DocSessions : NewDocumentHandler(g, g)
ValidateSavePdfStep ==
    \E n \in UploadNames : SavePdf([name |-> n, bytes |-> "b1"], "none")
ValidateSaveUploadedStep ==
    \E n1, n2 \in UploadNames :
        SaveUploadedFiles([name |-> n1, bytes |-> "b1"],
                          [name |-> n2, bytes |-> "b2"], "none")
ValidateNext ==
    \/ ValidateHandlerStep
    \/ ValidateSavePdfStep
    \/ RetentionNewStep
    \/ ValidateSaveUploadedStep
SpecValidate == FixedInit /\ [][ValidateNext]_vars

\* The retention cleanup, from any base_dir.
RetentionFrom ==
    /\ RagInit /\ DocInit /\ RetentionInit /\ ReadInit /\ FixedLoader /\ ChainInit /\ IngestInit
    /\ ConcurrentInit
SpecRetention == RetentionFrom /\ [][RetentionNext]_vars

\* The model loader, from any environment, .env file and config.yaml.
SpecLoader == Init /\ [][LoaderNext]_vars

\* A chat over an ingested document: ingestion calls with one readable file
\* each and invokes with one question and one answer, in any order.
ChatIngestStep ==
    \E u \in {x \in IngestUploads : PyPDFLoad(x.content).ok /\ x.content # "blank"} :
        IngestFiles(TRUE, <<u>>, NoFail)
ChatInvokeBeginStep ==
    \E i \in Instances : InvokeBegin(i, "q1")
ChatInvokeEndStep ==
    \E f \in {"none", "retrieve"} : InvokeEnd(f, "a1")

ChatNext ==
    \/ NewRagStep
    \/ ChatInvokeBeginStep
    \/ ChatInvokeEndStep
    \/ ChatIngestStep

SpecChat == FixedInit /\ [][ChatNext]_vars

\* One of each of the four operations that call a model: ingest_files,
\* invoke, analyze_document and compare_documents.
CallsNewRagStep == NewConversationalRAG("r1", "s1", TRUE)
CallsInvokeBeginStep == InvokeBegin("r1", "q1")
CallsInvokeEndStep ==
    \E f \in {"none", "rewrite", "retrieve", "synthesize"} : InvokeEnd(f, "a1")
CallsIngestStep ==
    \E at \in {"none", "load_embeddings", "from_documents"} :
        IngestFiles(TRUE, <<[name |-> N_a_pdf, content |-> "pdfA"]>>, [at |-> at, idx |-> 0])

CallsNext ==
    \/ CallsNewRagStep
    \/ CallsInvokeBeginStep
    \/ CallsInvokeEndStep
    \/ CallsIngestStep
    \/ ChainInvokeStep
    \/ LlmReturnsStep
    \/ LlmRaisesStep
    \/ ParseCompletionStep
    \/ RepairReturnsStep
    \/ RepairRaisesStep

SpecCalls == FixedInit /\ [][CallsNext]_vars

\* Two callers of invoke that interleave at every statement.
SpecSessionRace == FixedInit /\ [][SessionRaceNext]_vars

\* Two callers of ingest_files on the same faiss_dir.
SpecIngestRace == FixedInit /\ [][IngestRaceNext]_vars

\* The three upload handlers, on names that carry directories.
SpecPaths == FixedInit /\ [][PathsNext]_vars

\* The comparator's uploads and combine_documents.
SpecCombine == FixedInit /\ [][CombineNext]_vars

\* The two readers, on any file.
SpecRead == FixedInit /\ [][ReadNext]_vars

\* The analyzer's and the comparator's chain calls.
SpecChains == FixedInit /\ [][ChainNext]_vars

\* The text splitter, on any text.
SpecSplit == FixedInit /\ [][SplitNext]_vars

\* The single-document ingestor.
SpecIngest == FixedInit /\ [][IngestNext]_vars

====
